---- MODULE Spec2Model ----
(***************************************************************************)
(* The San Diego city-budget pipeline as a state machine.                  *)
(*                                                                         *)
(*   pipeline/transform.py  raw CSV extracts -> DuckDB tables ->           *)
(*                          budget.parquet -> ten aggregate parquet files  *)
(*   pipeline/validate.py   checks over the written artifacts, exit status *)
(*   api/queries.py         read-only queries over the aggregates          *)
(*                                                                         *)
(* A CSV cell of a numeric column is a sequence of one-character strings   *)
(* ("25" is <<"2","5">>), so TRY_CAST is a real parse.  A SQL number is    *)
(* <<n>> and the numeric NULL is <<>>.  A text column holds a string, the  *)
(* text NULL being the string NULL.  Amounts are whole units of one        *)
(* billion dollars (the validator's 1e9 and 8e9 are 1 and 8).              *)
(* Tables are sequences of rows; ORDER BY is not modelled for aggregates,  *)
(* whose rows are unique per grouping key and are kept as sets.            *)
(***************************************************************************)
EXTENDS Integers, Sequences, FiniteSets, TLC

VARIABLES
    raw,        \* data/raw: file name -> [exists, rows]
    db,         \* db/budget.duckdb: table name -> [kind, rows]
    processed,  \* data/processed/budget.parquet: [exists, rows]
    agg,        \* data/aggregated/<name>.parquet: name -> [exists, rows]
    pc,         \* position of transform()
    aggIdx,     \* number of aggregate COPY statements done in this run
    error,      \* the exception that ended transform(), or "none"
    written,    \* artifacts written by the current transform() run
    vproc,      \* the validator process: counters, exit status
    partial,    \* artifacts open for writing at their published path
    log,        \* the lines transform() has printed in the current run
    ing,        \* the ingest process: position in the loop, download under way
    requests,   \* GET requests sent by the current ingest run
    response    \* last response of the query layer

vars == <<raw, db, processed, agg, pc, aggIdx, error, written, vproc, partial, log, ing,
          requests, response>>

----------------------------------------------------------------------------
(* SQL values *)

NULL == "NULL"
NoNum == <<>>
Num(n) == <<n>>
IsNum(x) == x # NoNum
Val(x) == x[1]

Digits == {"0", "1", "2", "3", "4", "5", "6", "7", "8", "9"}

DigitVal(ch) ==
    CASE ch = "0" -> 0 [] ch = "1" -> 1 [] ch = "2" -> 2 [] ch = "3" -> 3
      [] ch = "4" -> 4 [] ch = "5" -> 5 [] ch = "6" -> 6 [] ch = "7" -> 7
      [] ch = "8" -> 8 [] ch = "9" -> 9

IsNumeral(s) == Len(s) > 0 /\ \A i \in 1..Len(s) : s[i] \in Digits

RECURSIVE NumeralVal(_)
NumeralVal(s) ==
    IF s = <<>> THEN 0
    ELSE 10 * NumeralVal(SubSeq(s, 1, Len(s) - 1)) + DigitVal(s[Len(s)])

\* TRY_CAST(cell AS INTEGER) and TRY_CAST(cell AS DOUBLE) on a text cell:
\* an optionally signed numeral gives its number, anything else (an empty
\* cell, "N/A") gives NULL.  The model's cells hold whole numbers only.
TryCastNumber(cell) ==
    IF IsNumeral(cell) THEN Num(NumeralVal(cell))
    ELSE IF Len(cell) > 1 /\ cell[1] = "-" /\ IsNumeral(Tail(cell))
         THEN Num(0 - NumeralVal(Tail(cell)))
         ELSE NoNum

\* TRY_CAST(key AS VARCHAR) of a text key: the text itself, NULL for NULL.
TryCastVarchar(key) == key

\* SQL equality used as a join condition: NULL matches nothing.
SqlEq(a, b) == a # NULL /\ b # NULL /\ a = b

RECURSIVE SumSeq(_)
SumSeq(s) == IF s = <<>> THEN 0 ELSE Head(s) + SumSeq(Tail(s))

RECURSIVE Flatten(_)
Flatten(ss) == IF ss = <<>> THEN <<>> ELSE Head(ss) \o Flatten(Tail(ss))

Range(s) == {s[i] : i \in 1..Len(s)}

\* SUM(x) over the numeric column values xs: NULLs are skipped, and the
\* sum of no non-NULL value is NULL.
SqlSum(xs) ==
    LET nn == SelectSeq(xs, IsNum)
    IN  IF nn = <<>> THEN NoNum
        ELSE Num(SumSeq([i \in 1..Len(nn) |-> Val(nn[i])]))

----------------------------------------------------------------------------
(* Files and tables *)

NoFile == [exists |-> FALSE, rows |-> <<>>]
File(rows) == [exists |-> TRUE, rows |-> rows]
\* An aggregate file holds a set of rows, one per grouping key.
NoAgg == [exists |-> FALSE, rows |-> {}]

NoTable == [kind |-> "none", rows |-> <<>>]
Table(rows) == [kind |-> "table", rows |-> rows]
\* CREATE TABLE <name> (dummy INTEGER): a table with no column of the extract
DummyTable == [kind |-> "dummy", rows |-> <<>>]

FactFiles == {"operating_budget", "operating_actuals", "cip_budget_fy", "cip_actuals_fy"}
RefFiles == {"ref_accounts", "ref_departments", "ref_funds"}
RawFiles == FactFiles \cup RefFiles

Tables == {"ref_accounts", "ref_departments", "ref_funds",
           "raw_op_budget", "raw_op_actuals", "operating",
           "raw_cip_budget", "raw_cip_actuals", "cip"}

\* No ingest process has run.
NoIngest == [state |-> "idle", force |-> FALSE, idx |-> 0, body |-> <<>>,
             prev |-> [state |-> "none", force |-> FALSE]]

\* No validator process is running; no query response is outstanding.
NoProcess == [state |-> "none"]
NoResponse == [kind |-> "none"]

\* The aggregate files in the order _build_aggregations writes them.
AggOrder == <<"sankey_revenue", "sankey_expense", "dept_budget_trends",
              "fund_allocation", "budget_vs_actuals", "revenue_breakdown",
              "dept_detail", "council_offices", "general_fund_summary",
              "cip_by_dept">>
AggNames == Range(AggOrder)

----------------------------------------------------------------------------
(* pipeline/transform.py: the SELECT lists of the operating and cip tables *)

\* COALESCE(x, y) on text
Coalesce(x, y) == IF x # NULL THEN x ELSE y

\* CASE WHEN TRY_CAST(report_fy AS INTEGER) < 100 THEN ... + 2000 ELSE ... END.
\* A NULL comparison is not true, so an unparseable code takes the ELSE
\* branch and stays NULL.
FiscalYearCase(cell) ==
    LET c == TryCastNumber(cell)
    IN  IF IsNum(c) /\ Val(c) < 100 THEN Num(Val(c) + 2000) ELSE c

\* The same CASE text without the 2-digit branch.
FiscalYearAsIs(cell) == TryCastNumber(cell)

\* The four copies of the CASE expression, one per extract.
OpBudgetFiscalYear(cell) == FiscalYearCase(cell)
OpActualsFiscalYear(cell) == FiscalYearCase(cell)
CipBudgetFiscalYear(cell) == FiscalYearCase(cell)
CipActualsFiscalYear(cell) == FiscalYearCase(cell)

ExpenseTypes == {"Personnel", "Non-Personnel"}

\* The CASE without its "IS NOT NULL" arm: everything else is revenue.
RevenueOrExpenseTwoWay(account_type) ==
    IF account_type # NULL /\ account_type \in ExpenseTypes THEN "Expense" ELSE "Revenue"

\* CASE WHEN account_type IN ('Personnel','Non-Personnel') THEN 'Expense'
\*      WHEN account_type IS NOT NULL THEN 'Revenue' ELSE NULL END
RevenueOrExpense(account_type) ==
    IF account_type # NULL /\ account_type \in ExpenseTypes THEN "Expense"
    ELSE IF account_type # NULL THEN "Revenue"
    ELSE NULL

NullAccount == [account_number |-> NULL, account_type |-> NULL,
                account_class |-> NULL, account_group |-> NULL]
NullDepartment == [funds_center_number |-> NULL, dept_group |-> NULL,
                   dept_division |-> NULL]
NullFund == [fund_number |-> NULL, fund_name |-> NULL]

\* An inner join: the matching right-hand rows and nothing else.
InnerJoin(rows, col, key, nullRow) ==
    SelectSeq(rows, LAMBDA r : SqlEq(TryCastVarchar(key), TryCastVarchar(r[col])))

\* The right-hand rows a LEFT JOIN pairs with one left row: every row whose
\* key equals the left key, or one all-NULL row when there is none.
LeftJoin(rows, col, key, nullRow) ==
    LET m == SelectSeq(rows, LAMBDA r : SqlEq(TryCastVarchar(key), TryCastVarchar(r[col])))
    IN  IF m = <<>> THEN <<nullRow>> ELSE m

\* The three chained LEFT JOINs of one raw operating row: one <<a, d, f>>
\* per combination of matching account, department and fund rows.
JoinDimensions(r, accounts, departments, funds) ==
    LET A == LeftJoin(accounts, "account_number", r.account_number, NullAccount)
        D == LeftJoin(departments, "funds_center_number", r.funds_center_number, NullDepartment)
        F == LeftJoin(funds, "fund_number", r.fund_number, NullFund)
        ld == Len(D)
        lf == Len(F)
    IN  [i \in 1..(Len(A) * ld * lf) |->
            <<A[((i - 1) \div (ld * lf)) + 1],
              D[(((i - 1) \div lf) % ld) + 1],
              F[((i - 1) % lf) + 1]>>]

OperatingRow(amount, fiscal_year, budget_cycle, source, r, j) ==
    [amount |-> amount,
     fiscal_year |-> fiscal_year,
     budget_cycle |-> budget_cycle,
     source |-> source,
     account_type |-> j[1].account_type,
     account_class |-> j[1].account_class,
     account_group |-> j[1].account_group,
     revenue_or_expense |-> RevenueOrExpense(j[1].account_type),
     account |-> r.account,
     account_number |-> TryCastVarchar(r.account_number),
     dept_group |-> j[2].dept_group,
     dept_name |-> r.dept_name,
     dept_division |-> j[2].dept_division,
     fund_type |-> r.fund_type,
     fund_name |-> j[3].fund_name,
     fund_number |-> TryCastVarchar(r.fund_number)]

\* "-- Budget records": the first SELECT of CREATE TABLE operating
OperatingBudgetRows(b, accounts, departments, funds) ==
    LET J == JoinDimensions(b, accounts, departments, funds)
    IN  [i \in 1..Len(J) |->
            OperatingRow(TryCastNumber(b.amount), OpBudgetFiscalYear(b.report_fy),
                         Coalesce(b.budget_cycle, "adopted"), "budget", b, J[i])]

\* "-- Actuals records": the second SELECT of CREATE TABLE operating
OperatingActualsRows(ac, accounts, departments, funds) ==
    LET J == JoinDimensions(ac, accounts, departments, funds)
    IN  [i \in 1..Len(J) |->
            OperatingRow(TryCastNumber(ac.amount), OpActualsFiscalYear(ac.report_fy),
                         "actual", "actual", ac, J[i])]

\* CREATE TABLE operating AS <budget records> UNION ALL <actuals records>
OperatingQuery(rawBudget, rawActuals, accounts, departments, funds) ==
    Flatten([i \in 1..Len(rawBudget) |->
                OperatingBudgetRows(rawBudget[i], accounts, departments, funds)])
    \o
    Flatten([i \in 1..Len(rawActuals) |->
                OperatingActualsRows(rawActuals[i], accounts, departments, funds)])

\* WHERE TRY_CAST(amount AS DOUBLE) IS NOT NULL
AmountCastable(r) == IsNum(TryCastNumber(r.amount))

CipBudgetRow(b) ==
    [amount |-> TryCastNumber(b.amount),
     fiscal_year |-> CipBudgetFiscalYear(b.report_fy),
     budget_cycle |-> Coalesce(b.budget_cycle, "adopted"),
     source |-> "budget",
     asset_owning_dept |-> b.asset_owning_dept,
     project_name |-> b.project_name,
     project_number |-> b.project_number]

CipActualsRow(ac) ==
    [amount |-> TryCastNumber(ac.amount),
     fiscal_year |-> CipActualsFiscalYear(ac.report_fy),
     budget_cycle |-> "actual",
     source |-> "actual",
     asset_owning_dept |-> ac.asset_owning_dept,
     project_name |-> ac.project_name,
     project_number |-> ac.project_number_parent]

\* CREATE TABLE cip AS <budget> UNION ALL <actuals>
CipQuery(rawBudget, rawActuals) ==
    LET b == SelectSeq(rawBudget, AmountCastable)
        a == SelectSeq(rawActuals, AmountCastable)
    IN  [i \in 1..Len(b) |-> CipBudgetRow(b[i])] \o [i \in 1..Len(a) |-> CipActualsRow(a[i])]

\* A widening that pads revenue_or_expense with NULL like the other columns.
WidenCipAllNull(c) ==
    [amount |-> c.amount,
     fiscal_year |-> c.fiscal_year,
     budget_cycle |-> c.budget_cycle,
     source |-> c.source,
     account_type |-> NULL,
     account_class |-> NULL,
     account_group |-> NULL,
     revenue_or_expense |-> NULL,
     account |-> NULL,
     account_number |-> NULL,
     dept_group |-> NULL,
     dept_name |-> c.asset_owning_dept,
     dept_division |-> NULL,
     fund_type |-> NULL,
     fund_name |-> NULL,
     fund_number |-> NULL]

\* The second SELECT of the export: a cip row widened to the operating columns
WidenCip(c) ==
    [amount |-> c.amount,
     fiscal_year |-> c.fiscal_year,
     budget_cycle |-> c.budget_cycle,
     source |-> c.source,
     account_type |-> NULL,
     account_class |-> NULL,
     account_group |-> NULL,
     revenue_or_expense |-> "Expense",
     account |-> NULL,
     account_number |-> NULL,
     dept_group |-> NULL,
     dept_name |-> c.asset_owning_dept,
     dept_division |-> NULL,
     fund_type |-> NULL,
     fund_name |-> NULL,
     fund_number |-> NULL]

\* COPY (SELECT * FROM operating UNION ALL SELECT ... FROM cip) TO budget.parquet
UnifiedFact(operating, cip) ==
    operating \o [i \in 1..Len(cip) |-> WidenCip(cip[i])]

----------------------------------------------------------------------------
(* The raw extracts the model runs on *)

\* Longest run of rows a varied extract holds.
MaxRows == 2

SeqsUpTo(S, n) == UNION {[1..k -> S] : k \in 0..n}

DigitChar(d) ==
    CASE d = 0 -> "0" [] d = 1 -> "1" [] d = 2 -> "2" [] d = 3 -> "3"
      [] d = 4 -> "4" [] d = 5 -> "5" [] d = 6 -> "6" [] d = 7 -> "7"
      [] d = 8 -> "8" [] d = 9 -> "9"
TwoDigits(n) == <<DigitChar(n \div 10), DigitChar(n % 10)>>

FYCells == {<<"2", "5">>, <<"9", "9">>, <<"1", "0", "0">>, <<"2", "0", "2", "5">>}
AmountCells == {<<"N", "/", "A">>, <<"0">>, <<"2">>, <<"-", "2">>}
CycleCells == {NULL, "adopted", "proposed", "amended"}
AccountKeys == {"5001", "4001", "7001", "9999", NULL}

BaseAccounts ==
    <<[account_number |-> "5001", account_type |-> "Personnel",
       account_class |-> "Salaries", account_group |-> "Personnel Cost"],
      [account_number |-> "4001", account_type |-> "Non-Personnel",
       account_class |-> "Supplies", account_group |-> "Non-Personnel Cost"],
      [account_number |-> "7001", account_type |-> "Property Tax",
       account_class |-> "Taxes", account_group |-> "Revenue"]>>
BaseDepartments ==
    <<[funds_center_number |-> "1914", dept_group |-> "Public Safety",
       dept_division |-> "Patrol"],
      [funds_center_number |-> "9000", dept_group |-> "Major Revenues",
       dept_division |-> "Citywide Revenues"]>>
BaseFunds ==
    <<[fund_number |-> "100000", fund_name |-> "General Fund"]>>

OpBudget(amount, fy, cycle, acct, fc, dept, ftype) ==
    [amount |-> amount, report_fy |-> fy, budget_cycle |-> cycle,
     account |-> "Account", account_number |-> acct,
     funds_center_number |-> fc, fund_number |-> "100000",
     dept_name |-> dept, fund_type |-> ftype]
OpActual(amount, fy, acct, fc, dept, ftype) ==
    [amount |-> amount, report_fy |-> fy,
     account |-> "Account", account_number |-> acct,
     funds_center_number |-> fc, fund_number |-> "100000",
     dept_name |-> dept, fund_type |-> ftype]
CipBudget(amount, fy, cycle, dept) ==
    [amount |-> amount, report_fy |-> fy, budget_cycle |-> cycle,
     asset_owning_dept |-> dept, project_name |-> "Pipeline Rehab",
     project_number |-> "B1"]
CipActual(amount, fy, dept) ==
    [amount |-> amount, report_fy |-> fy,
     asset_owning_dept |-> dept, project_name |-> "Pipeline Rehab",
     project_number_parent |-> "B1"]

BaseBudgetRow == OpBudget(<<"2">>, <<"2", "5">>, "adopted", "5001", "1914", "Police", "General Fund")
BaseActualRow == OpActual(<<"2">>, <<"2", "3">>, "5001", "1914", "Police", "General Fund")
BaseCipBudgetRow == CipBudget(<<"2">>, <<"2", "5">>, "adopted", "Public Utilities")
BaseCipActualRow == CipActual(<<"2">>, <<"2", "3">>, "Public Utilities")

RawDir(ob, oa, cb, ca, ra, rd, rf) ==
    [operating_budget |-> ob, operating_actuals |-> oa,
     cip_budget_fy |-> cb, cip_actuals_fy |-> ca,
     ref_accounts |-> ra, ref_departments |-> rd, ref_funds |-> rf]

BaseDir ==
    RawDir(File(<<BaseBudgetRow>>), File(<<BaseActualRow>>),
           File(<<BaseCipBudgetRow>>), File(<<BaseCipActualRow>>),
           File(BaseAccounts), File(BaseDepartments), File(BaseFunds))

\* Every extract carries one row; the fiscal-year codes vary independently.
FiscalYearDirs ==
    {[BaseDir EXCEPT
        !.operating_budget = File(<<[BaseBudgetRow EXCEPT !.report_fy = c[1]]>>),
        !.operating_actuals = File(<<[BaseActualRow EXCEPT !.report_fy = c[2]]>>),
        !.cip_budget_fy = File(<<[BaseCipBudgetRow EXCEPT !.report_fy = c[3]]>>),
        !.cip_actuals_fy = File(<<[BaseCipActualRow EXCEPT !.report_fy = c[4]]>>)]
     : c \in FYCells \X FYCells \X FYCells \X FYCells}

\* Account dimensions: a NULL account_type, a repeated key, an empty table.
AccountTables ==
    {BaseAccounts,
     BaseAccounts \o <<[account_number |-> "9999", account_type |-> NULL,
                        account_class |-> NULL, account_group |-> NULL]>>,
     BaseAccounts \o <<[account_number |-> "5001", account_type |-> "Personnel",
                        account_class |-> "Overtime", account_group |-> "Personnel Cost"]>>,
     <<>>}
DepartmentTables ==
    {BaseDepartments,
     BaseDepartments \o <<[funds_center_number |-> "1914", dept_group |-> "Public Safety",
                           dept_division |-> "Traffic"]>>,
     <<>>}
FundTables ==
    {BaseFunds,
     BaseFunds \o <<[fund_number |-> "100000", fund_name |-> "General Fund (old)"]>>}

\* The account keys of the operating rows vary, against every account table.
ClassifyDirs ==
    {[BaseDir EXCEPT
        !.operating_budget = File(<<[BaseBudgetRow EXCEPT !.account_number = k[1]]>>),
        !.operating_actuals = File(<<[BaseActualRow EXCEPT !.account_number = k[2]]>>),
        !.ref_accounts = File(t)]
     : k \in AccountKeys \X AccountKeys, t \in AccountTables}

\* The budget cycles of the two budget extracts vary.
CycleDirs ==
    {[BaseDir EXCEPT
        !.operating_budget = File(<<[BaseBudgetRow EXCEPT !.budget_cycle = c[1]]>>),
        !.cip_budget_fy = File(<<[BaseCipBudgetRow EXCEPT !.budget_cycle = c[2]]>>)]
     : c \in CycleCells \X CycleCells}

\* Operating amounts: up to MaxRows budget rows and up to one actual row of
\* one department and year, any amounts.
AmountDirs ==
    {[BaseDir EXCEPT
        !.operating_budget =
            File([i \in 1..Len(b) |->
                    [BaseBudgetRow EXCEPT !.amount = b[i], !.report_fy = <<"2", "3">>]]),
        !.operating_actuals =
            File([i \in 1..Len(a) |-> [BaseActualRow EXCEPT !.amount = a[i]]])]
     : b \in SeqsUpTo(AmountCells, MaxRows), a \in SeqsUpTo(AmountCells, 1)}

\* Capital amounts.
CipAmountDirs ==
    {[BaseDir EXCEPT
        !.cip_budget_fy =
            File([i \in 1..Len(b) |-> [BaseCipBudgetRow EXCEPT !.amount = b[i]]]),
        !.cip_actuals_fy =
            File([i \in 1..Len(a) |-> [BaseCipActualRow EXCEPT !.amount = a[i]]])]
     : b \in SeqsUpTo(AmountCells, 1), a \in SeqsUpTo(AmountCells, 1)}

\* Dimension tables with repeated keys, empty, or their files missing.
DimensionDirs ==
    {[BaseDir EXCEPT !.ref_accounts = a, !.ref_departments = d, !.ref_funds = f]
     : a \in {File(t) : t \in AccountTables} \cup {NoFile},
       d \in {File(t) : t \in DepartmentTables} \cup {NoFile},
       f \in {File(t) : t \in FundTables} \cup {NoFile}}

\* The one budget row is booked on the funds center of the department group
\* 'Major Revenues', under every account key.
MajorRevenueDirs ==
    {[BaseDir EXCEPT
        !.operating_budget =
            File(<<[BaseBudgetRow EXCEPT !.account_number = k,
                                         !.funds_center_number = "9000"]>>)]
     : k \in AccountKeys}

\* Any of the four fact extracts missing.
MissingFactDirs ==
    {[f \in RawFiles |-> IF f \in missing THEN NoFile ELSE BaseDir[f]]
     : missing \in SUBSET FactFiles}

----------------------------------------------------------------------------
(* pipeline/transform.py: _build_aggregations *)

\* SELECT cols, SUM(amount) AS amount FROM sel GROUP BY cols
GroupSum(sel, cols) ==
    LET key(r) == [c \in cols |-> r[c]]
        grp(k) == SelectSeq(sel, LAMBDA r : key(r) = k)
    IN  {k @@ [amount |-> SqlSum([i \in 1..Len(grp(k)) |-> grp(k)[i].amount])]
         : k \in {key(sel[i]) : i \in 1..Len(sel)}}

\* The same WHERE clause without "AND source = 'budget'".
SankeyRevenueWhereAnySource(r) ==
    /\ SqlEq(r.revenue_or_expense, "Revenue")
    /\ r.account_type # NULL
    /\ r.fund_type # NULL

SankeyRevenueWhere(r) ==
    /\ SqlEq(r.revenue_or_expense, "Revenue")
    /\ r.account_type # NULL
    /\ r.fund_type # NULL
    /\ SqlEq(r.source, "budget")

SankeyRevenue(operating) ==
    \* account_type AS revenue_source
    {[revenue_source |-> g.account_type, fund_type |-> g.fund_type,
      fiscal_year |-> g.fiscal_year, budget_cycle |-> g.budget_cycle,
      amount |-> g.amount]
     : g \in GroupSum(SelectSeq(operating, SankeyRevenueWhere),
             {"account_type", "fund_type", "fiscal_year", "budget_cycle"})}

SankeyExpenseWhere(r) ==
    /\ SqlEq(r.revenue_or_expense, "Expense")
    /\ r.fund_type # NULL
    /\ r.dept_group # NULL
    /\ SqlEq(r.source, "budget")

SankeyExpense(operating) ==
    GroupSum(SelectSeq(operating, SankeyExpenseWhere),
             {"fund_type", "dept_group", "fiscal_year", "budget_cycle"})

DeptBudgetTrends(operating) ==
    GroupSum(SelectSeq(operating, LAMBDA r : r.dept_name # NULL),
             {"dept_group", "dept_name", "revenue_or_expense", "fiscal_year", "source", "budget_cycle"})

FundAllocation(operating) ==
    GroupSum(SelectSeq(operating, LAMBDA r : r.fund_type # NULL),
             {"fund_type", "revenue_or_expense", "fiscal_year", "account_type", "budget_cycle", "source"})

\* SUM(CASE WHEN source = 'budget' AND budget_cycle = 'adopted' THEN amount ELSE 0 END)
BudgetAmountCase(r) ==
    IF SqlEq(r.source, "budget") /\ SqlEq(r.budget_cycle, "adopted") THEN r.amount ELSE Num(0)

\* SUM(CASE WHEN source = 'actual' THEN amount ELSE 0 END)
ActualAmountCase(r) ==
    IF SqlEq(r.source, "actual") THEN r.amount ELSE Num(0)

\* "x != 0" is true only of a non-NULL x
NotZero(x) == IsNum(x) /\ Val(x) # 0

\* HAVING (budget_amount != 0 OR actual_amount != 0)
BvaHaving(g) == NotZero(g.budget_amount) \/ NotZero(g.actual_amount)

BvaKey(r) == [dept_name |-> r.dept_name, dept_group |-> r.dept_group,
              fiscal_year |-> r.fiscal_year, account_type |-> r.account_type]

BudgetVsActuals(operating) ==
    LET sel == SelectSeq(operating, LAMBDA r : r.dept_name # NULL)
        grp(k) == SelectSeq(sel, LAMBDA r : BvaKey(r) = k)
        row(k) == k @@ [budget_amount |->
                          SqlSum([i \in 1..Len(grp(k)) |-> BudgetAmountCase(grp(k)[i])]),
                        actual_amount |->
                          SqlSum([i \in 1..Len(grp(k)) |-> ActualAmountCase(grp(k)[i])])]
    IN  {g \in {row(k) : k \in {BvaKey(sel[i]) : i \in 1..Len(sel)}} : BvaHaving(g)}

RevenueBreakdown(operating) ==
    GroupSum(SelectSeq(operating, LAMBDA r : SqlEq(r.revenue_or_expense, "Revenue") /\ r.account_type # NULL),
             {"account_type", "account_class", "fiscal_year", "budget_cycle", "source"})

DeptDetail(operating) ==
    GroupSum(SelectSeq(operating, LAMBDA r : r.dept_name # NULL),
             {"dept_group", "dept_name", "dept_division", "account_class", "account_type", "revenue_or_expense", "fiscal_year", "budget_cycle", "source"})

\* dept_name LIKE 'Council District%' OR dept_name LIKE 'City Council%', over
\* the department names the model's extracts use
CouncilNames == {"Council District 1", "City Council"}

CouncilOffices(operating) ==
    GroupSum(SelectSeq(operating, LAMBDA r : r.dept_name # NULL /\ r.dept_name \in CouncilNames),
             {"dept_name", "account_class", "account_type", "fiscal_year", "budget_cycle", "source"})

GeneralFundSummary(operating) ==
    GroupSum(SelectSeq(operating, LAMBDA r : SqlEq(r.fund_type, "General Fund")),
             {"dept_name", "dept_group", "account_class", "account_type", "revenue_or_expense", "fiscal_year", "budget_cycle", "source"})

CipByDept(cip) ==
    GroupSum(SelectSeq(cip, LAMBDA r : TRUE),
             {"asset_owning_dept", "project_name", "fiscal_year", "source"})

\* The COPY statement that writes aggregate `name`
AggQuery(name, operating, cip) ==
    CASE name = "sankey_revenue" -> SankeyRevenue(operating)
      [] name = "sankey_expense" -> SankeyExpense(operating)
      [] name = "dept_budget_trends" -> DeptBudgetTrends(operating)
      [] name = "fund_allocation" -> FundAllocation(operating)
      [] name = "budget_vs_actuals" -> BudgetVsActuals(operating)
      [] name = "revenue_breakdown" -> RevenueBreakdown(operating)
      [] name = "dept_detail" -> DeptDetail(operating)
      [] name = "council_offices" -> CouncilOffices(operating)
      [] name = "general_fund_summary" -> GeneralFundSummary(operating)
      [] name = "cip_by_dept" -> CipByDept(cip)

\* The columns of each aggregate file: the SELECT list of its COPY statement
AggColumns(name) ==
    CASE name = "sankey_revenue" ->
            {"revenue_source", "fund_type", "fiscal_year", "budget_cycle", "amount"}
      [] name = "sankey_expense" ->
            {"fund_type", "dept_group", "fiscal_year", "budget_cycle", "amount"}
      [] name = "dept_budget_trends" ->
            {"dept_group", "dept_name", "revenue_or_expense", "fiscal_year", "source",
             "budget_cycle", "amount"}
      [] name = "fund_allocation" ->
            {"fund_type", "revenue_or_expense", "fiscal_year", "account_type",
             "budget_cycle", "source", "amount"}
      [] name = "budget_vs_actuals" ->
            {"dept_name", "dept_group", "fiscal_year", "account_type", "budget_amount",
             "actual_amount"}
      [] name = "revenue_breakdown" ->
            {"account_type", "account_class", "fiscal_year", "budget_cycle", "source",
             "amount"}
      [] name = "dept_detail" ->
            {"dept_group", "dept_name", "dept_division", "account_class", "account_type",
             "revenue_or_expense", "fiscal_year", "budget_cycle", "source", "amount"}
      [] name = "council_offices" ->
            {"dept_name", "account_class", "account_type", "fiscal_year", "budget_cycle",
             "source", "amount"}
      [] name = "general_fund_summary" ->
            {"dept_name", "dept_group", "account_class", "account_type",
             "revenue_or_expense", "fiscal_year", "budget_cycle", "source", "amount"}
      [] name = "cip_by_dept" ->
            {"asset_owning_dept", "project_name", "fiscal_year", "source", "amount"}

----------------------------------------------------------------------------
(* pipeline/transform.py: transform() and its stages *)

\* read_csv(path, header=true, ignore_errors=true) INTO a table
ReadCsv(file) == Table(file.rows)

Idle == pc \in {"idle", "done", "aborted"}

\* transform(): mkdir, duckdb.connect
StartTransform ==
    /\ Idle
    /\ vproc = NoProcess
    /\ response = NoResponse
    /\ pc' = "ref"
    /\ error' = "none"
    /\ written' = {}
    /\ aggIdx' = 0
    /\ log' = <<>>
    /\ UNCHANGED <<raw, db, processed, agg, vproc, response, partial, ing, requests>>

\* print(...): a line of the run's output, with the row count it reports
LogLine(line, name, rows) == [line |-> line, name |-> name, rows |-> rows]

\* print(f"  Loaded {name}: {count:,} rows")
Loaded(name, t) == LogLine("Loaded", name, Num(Len(t.rows)))

\* The order of ref_files
RefOrder == <<"ref_accounts", "ref_departments", "ref_funds">>

\* One turn of the loop of _load_reference_tables
RefLine(name, file) ==
    IF file.exists THEN Loaded(name, ReadCsv(file))
    ELSE LogLine("[warn] Reference file not found", name, NoNum)

\* One turn of the loading loop of _build_cip_table
CipLine(name, file) ==
    IF file.exists THEN Loaded(name, ReadCsv(file))
    ELSE LogLine("[warn] CIP file not found", name, NoNum)

\* _load_reference_tables: a missing file is skipped with a warning and its
\* table is neither dropped nor created
LoadReferenceTables ==
    /\ pc = "ref"
    /\ db' = [t \in Tables |->
                IF t \in RefFiles /\ raw[t].exists THEN ReadCsv(raw[t]) ELSE db[t]]
    /\ log' = log \o [i \in 1..Len(RefOrder) |-> RefLine(RefOrder[i], raw[RefOrder[i]])]
    /\ pc' = "op"
    /\ UNCHANGED <<raw, processed, agg, aggIdx, error, written, vproc, response, partial, ing, requests>>

RefTablesExist(d) == \A t \in RefFiles : d[t].kind # "none"

\* _build_operating_table
BuildOperatingTable ==
    /\ pc = "op"
    /\ IF ~raw.operating_budget.exists
       THEN \* raise FileNotFoundError on the first file
            /\ db' = db
            /\ pc' = "aborted"
            /\ error' = "FileNotFoundError"
            /\ log' = log
       ELSE IF ~raw.operating_actuals.exists
       THEN \* raw_op_budget is loaded, then raise FileNotFoundError
            /\ db' = [db EXCEPT !.raw_op_budget = ReadCsv(raw.operating_budget)]
            /\ pc' = "aborted"
            /\ error' = "FileNotFoundError"
            /\ log' = Append(log, Loaded("raw_op_budget", ReadCsv(raw.operating_budget)))
       ELSE IF ~RefTablesExist(db)
       THEN \* DROP TABLE operating, then the CREATE fails on a LEFT JOIN
            \* with a table that does not exist
            /\ db' = [db EXCEPT !.raw_op_budget = ReadCsv(raw.operating_budget),
                                !.raw_op_actuals = ReadCsv(raw.operating_actuals),
                                !.operating = NoTable]
            /\ pc' = "aborted"
            /\ error' = "CatalogException"
            /\ log' = log \o <<Loaded("raw_op_budget", ReadCsv(raw.operating_budget)),
                               Loaded("raw_op_actuals", ReadCsv(raw.operating_actuals))>>
       ELSE /\ db' = [db EXCEPT !.raw_op_budget = ReadCsv(raw.operating_budget),
                                !.raw_op_actuals = ReadCsv(raw.operating_actuals),
                                !.operating =
                                    Table(OperatingQuery(raw.operating_budget.rows,
                                                         raw.operating_actuals.rows,
                                                         db.ref_accounts.rows,
                                                         db.ref_departments.rows,
                                                         db.ref_funds.rows))]
            /\ pc' = "cip"
            /\ error' = error
            /\ log' = log \o <<Loaded("raw_op_budget", ReadCsv(raw.operating_budget)),
                               Loaded("raw_op_actuals", ReadCsv(raw.operating_actuals)),
                               LogLine("Operating table", "operating",
                                       Num(Len(db'.operating.rows)))>>
    /\ UNCHANGED <<raw, processed, agg, aggIdx, written, vproc, response, partial, ing, requests>>

\* A missing file read as an empty extract with the extract's columns.
LoadCipEmpty(file) == IF file.exists THEN ReadCsv(file) ELSE Table(<<>>)

\* The loop of _build_cip_table: a missing file leaves a one-column dummy table
LoadCip(file) == IF file.exists THEN ReadCsv(file) ELSE DummyTable

\* _build_cip_table
BuildCipTable ==
    /\ pc = "cip"
    /\ LET b == LoadCip(raw.cip_budget_fy)
           a == LoadCip(raw.cip_actuals_fy)
       IN  IF b.kind = "dummy" \/ a.kind = "dummy"
           THEN \* DROP TABLE cip, then the CREATE names columns (amount,
                \* report_fy, ...) the dummy table does not have
                /\ db' = [db EXCEPT !.raw_cip_budget = b, !.raw_cip_actuals = a,
                                    !.cip = NoTable]
                /\ pc' = "aborted"
                /\ error' = "BinderException"
                /\ log' = log \o <<CipLine("raw_cip_budget", raw.cip_budget_fy),
                                   CipLine("raw_cip_actuals", raw.cip_actuals_fy)>>
           ELSE /\ db' = [db EXCEPT !.raw_cip_budget = b, !.raw_cip_actuals = a,
                                    !.cip = Table(CipQuery(b.rows, a.rows))]
                /\ pc' = "export"
                /\ error' = error
                /\ log' = log \o <<CipLine("raw_cip_budget", raw.cip_budget_fy),
                                   CipLine("raw_cip_actuals", raw.cip_actuals_fy),
                                   LogLine("CIP table", "cip", Num(Len(db'.cip.rows)))>>
    /\ UNCHANGED <<raw, processed, agg, aggIdx, written, vproc, response, partial, ing, requests>>

\* COPY ... TO a path that holds no file creates the file there and fills
\* it; the file is not readable until the statement ends
OpenProcessed ==
    /\ pc = "export"
    /\ ~processed.exists
    /\ processed' = File(<<>>)
    /\ partial' = partial \cup {"budget"}
    /\ UNCHANGED <<raw, db, agg, pc, aggIdx, error, written, vproc, response, log, ing, requests>>

\* transform(): COPY (...) TO budget.parquet, the statement ending.  A file
\* already at the path is replaced when the statement ends.
ExportProcessed ==
    /\ pc = "export"
    /\ processed.exists
    /\ processed' = File(UnifiedFact(db.operating.rows, db.cip.rows))
    /\ partial' = partial \ {"budget"}
    /\ written' = written \cup {"budget"}
    /\ log' = Append(log, LogLine("Exported processed data", "budget", NoNum))
    /\ pc' = "agg"
    /\ UNCHANGED <<raw, db, agg, aggIdx, error, vproc, response, ing, requests>>

\* An aggregate opened while the export of the fact file is still due.
OpenAggregateEarly ==
    /\ pc \in {"export", "agg"}
    /\ ~agg[AggOrder[aggIdx + 1]].exists
    /\ agg' = [agg EXCEPT ![AggOrder[aggIdx + 1]] = [exists |-> TRUE, rows |-> {}]]
    /\ partial' = partial \cup {AggOrder[aggIdx + 1]}
    /\ UNCHANGED <<raw, db, processed, pc, aggIdx, error, written, vproc, response, log, ing, requests>>

\* The next COPY statement of _build_aggregations creating its file
OpenAggregate ==
    /\ pc = "agg"
    /\ ~agg[AggOrder[aggIdx + 1]].exists
    /\ agg' = [agg EXCEPT ![AggOrder[aggIdx + 1]] = [exists |-> TRUE, rows |-> {}]]
    /\ partial' = partial \cup {AggOrder[aggIdx + 1]}
    /\ UNCHANGED <<raw, db, processed, pc, aggIdx, error, written, vproc, response, log, ing, requests>>

\* _build_aggregations: the next COPY statement ending; after the tenth,
\* con.close()
BuildAggregations ==
    /\ pc = "agg"
    /\ agg[AggOrder[aggIdx + 1]].exists
    /\ LET name == AggOrder[aggIdx + 1]
       IN  /\ agg' = [agg EXCEPT ![name] =
                        [exists |-> TRUE,
                         rows |-> AggQuery(name, db.operating.rows, db.cip.rows)]]
           /\ written' = written \cup {name}
           /\ partial' = partial \ {name}
    /\ aggIdx' = aggIdx + 1
    /\ pc' = IF aggIdx + 1 = Len(AggOrder) THEN "done" ELSE "agg"
    /\ log' = log \o <<LogLine("[agg]", AggOrder[aggIdx + 1], NoNum)>>
                   \o (IF aggIdx + 1 = Len(AggOrder)
                       THEN <<LogLine("Transform complete.", "", NoNum)>> ELSE <<>>)
    /\ UNCHANGED <<raw, db, processed, error, vproc, response, ing, requests>>

----------------------------------------------------------------------------
(* api/queries.py: get_budget_vs_actuals *)

\* Python None, for an optional parameter left out
None == "None"

\* "if cycle", "if dept": neither None nor the empty string
Truthy(v) == v # None /\ v # ""

\* One condition of a WHERE clause
Cond(col, op, val) == [col |-> col, op |-> op, val |-> val]

\* _where(fy_min, fy_max, cycle, fund_type, dept_group, *, has_fund_type,
\* has_dept_group, has_cycle): the conditions joined by AND; has is the set
\* of the three columns whose flag is True, and an int | None parameter is
\* Num(n) or NoNum
Where(fy_min, fy_max, cycle, fund_type, dept_group, has) ==
    (IF IsNum(fy_min) THEN <<Cond("fiscal_year", ">=", Val(fy_min))>> ELSE <<>>)
    \o (IF IsNum(fy_max) THEN <<Cond("fiscal_year", "<=", Val(fy_max))>> ELSE <<>>)
    \o (IF Truthy(cycle) /\ "budget_cycle" \in has
        THEN <<Cond("budget_cycle", "=", cycle)>> ELSE <<>>)
    \o (IF Truthy(fund_type) /\ "fund_type" \in has
        THEN <<Cond("fund_type", "=", fund_type)>> ELSE <<>>)
    \o (IF Truthy(dept_group) /\ "dept_group" \in has
        THEN <<Cond("dept_group", "=", dept_group)>> ELSE <<>>)

\* _q(where, condition), for a condition that is itself a conjunction
Q(where, conditions) == where \o conditions

\* A statement: FROM '<target>.parquet' WHERE <conditions>
Statement(target, where) == [target |-> target, where |-> where]

\* The columns a WHERE clause names
WhereColumns(where) == {where[i].col : i \in DOMAIN where}

\* DuckDB binds every column a statement names against the file's schema
Binds(st) == WhereColumns(st.where) \subseteq AggColumns(st.target)

\* The INTEGER and DOUBLE columns of the aggregate files
NumericColumns == {"fiscal_year", "amount", "budget_amount", "actual_amount"}

\* Whether a row satisfies a condition; a comparison with NULL is not true
Holds(c, r) ==
    CASE c.op = ">=" -> IsNum(r[c.col]) /\ Val(r[c.col]) >= c.val
      [] c.op = "<=" -> IsNum(r[c.col]) /\ Val(r[c.col]) <= c.val
      [] c.op = "BETWEEN" ->
            IsNum(r[c.col]) /\ Val(r[c.col]) >= c.val[1] /\ Val(r[c.col]) <= c.val[2]
      [] c.op = "=" -> r[c.col] # NULL /\ r[c.col] = c.val
      [] c.op = "IN" -> r[c.col] # NULL /\ r[c.col] \in c.val
      [] c.op = "IS NOT NULL" ->
            IF c.col \in NumericColumns THEN IsNum(r[c.col]) ELSE r[c.col] # NULL

\* The rows of a file a WHERE clause keeps
Select(rows, where) == {r \in rows : \A i \in DOMAIN where : Holds(where[i], r)}

\* Executing statements one after the other: "ok", or the first error
RunStatements(a, sts) ==
    LET bad == {i \in DOMAIN sts : ~a[sts[i].target].exists \/ ~Binds(sts[i])}
        first == CHOOSE i \in bad : \A j \in bad : i <= j
    IN  IF bad = {} THEN "ok"
        ELSE IF ~a[sts[first].target].exists THEN "IOException" ELSE "BinderException"

RECURSIVE SumSet(_, _)
SumSet(S, col) ==
    IF S = {} THEN 0
    ELSE LET x == CHOOSE y \in S : TRUE
         IN  Val(x[col]) + SumSet(S \ {x}, col)

\* SUM(col) over a set of rows
SqlSumRows(S, col) ==
    LET nn == {r \in S : IsNum(r[col])}
    IN  IF nn = {} THEN NoNum ELSE Num(SumSet(nn, col))

\* "SUM(amount) ... .fetchone()[0] or 0"
SumOrZero(S) == IF IsNum(SqlSumRows(S, "amount")) THEN Val(SqlSumRows(S, "amount")) ELSE 0

\* a - b, NULL when either is NULL
SqlMinus(a, b) == IF IsNum(a) /\ IsNum(b) THEN Num(Val(a) - Val(b)) ELSE NoNum

\* w = _where(fy_min, fy_max, has_fund_type=False, has_cycle=False), then
\* _q(w, "account_type IN ('Personnel', 'Non-Personnel')")
BvaStatement(fy_min, fy_max) ==
    Statement("budget_vs_actuals",
              Q(Where(Num(fy_min), Num(fy_max), None, None, None, {"dept_group"}),
                <<Cond("account_type", "IN", ExpenseTypes)>>))

\* GROUP BY dept_name with no HAVING clause.
BvaQueryHavingNone(g) == TRUE

\* HAVING SUM(budget_amount) != 0
BvaQueryHaving(g) == NotZero(g.budget_amount)

\* SELECT dept_name, SUM(budget_amount), SUM(actual_amount),
\*        SUM(actual_amount) - SUM(budget_amount) AS variance ... GROUP BY dept_name
BvaQueryGroups(rows, fy_min, fy_max) ==
    LET sel == Select(rows, BvaStatement(fy_min, fy_max).where)
        grp(d) == {r \in sel : r.dept_name = d}
        row(d) == [dept_name |-> d,
                   budget_amount |-> SqlSumRows(grp(d), "budget_amount"),
                   actual_amount |-> SqlSumRows(grp(d), "actual_amount"),
                   variance |-> SqlMinus(SqlSumRows(grp(d), "actual_amount"),
                                         SqlSumRows(grp(d), "budget_amount"))]
    IN  {g \in {row(d) : d \in {r.dept_name : r \in sel}} : BvaQueryHaving(g)}

Min(a, b) == IF a <= b THEN a ELSE b

\* ORDER BY SUM(budget_amount) DESC LIMIT n: the possible results, ties in
\* any order
TopByBudget(groups, n) ==
    {S \in SUBSET groups :
        /\ Cardinality(S) = Min(n, Cardinality(groups))
        /\ \A x \in S, y \in groups \ S :
              Val(x.budget_amount) >= Val(y.budget_amount)}

QueryYears == {2020, 2023, 2025}
QueryLimits == {1, 15}

\* The response to a call whose statements sts did not all run
ErrorResponse(a, sts) == [kind |-> "error", error |-> RunStatements(a, sts), sql |-> sts]

\* get_budget_vs_actuals(fy_min, fy_max, limit); reading a missing parquet
\* file raises
GetBudgetVsActuals ==
    /\ Idle
    /\ vproc = NoProcess
    /\ response = NoResponse
    /\ \E fy_min \in QueryYears, fy_max \in QueryYears, limit \in QueryLimits :
          LET sts == <<BvaStatement(fy_min, fy_max)>>
          IN  IF RunStatements(agg, sts) # "ok"
              THEN response' = ErrorResponse(agg, sts)
              ELSE \E S \in TopByBudget(BvaQueryGroups(agg.budget_vs_actuals.rows,
                                                      fy_min, fy_max), limit) :
                      response' = [kind |-> "budget_vs_actuals", rows |-> S, sql |-> sts]
    /\ UNCHANGED <<raw, db, processed, agg, pc, aggIdx, error, written, vproc, partial, log, ing, requests>>

\* The response has been returned to the caller.
ResponseReturned ==
    /\ response # NoResponse
    /\ response' = NoResponse
    /\ UNCHANGED <<raw, db, processed, agg, pc, aggIdx, error, written, vproc, partial, log, ing, requests>>

----------------------------------------------------------------------------
(* api/queries.py: the other query functions *)

\* The filter values callers pass
Cycles == {None, "", "adopted"}
FundTypes == {None, "General Fund"}
DeptGroups == {None, "Public Safety"}

\* SELECT cols, SUM(amount) AS amount FROM rows GROUP BY cols, over a file
GroupSumRows(rows, cols) ==
    LET key(r) == [c \in cols |-> r[c]]
    IN  {k @@ [amount |-> SqlSumRows({r \in rows : key(r) = k}, "amount")]
         : k \in {key(r) : r \in rows}}

\* ORDER BY amount DESC LIMIT n: the possible results, ties in any order and
\* NULL amounts last
TopByAmount(groups, n) ==
    {S \in SUBSET groups :
        /\ Cardinality(S) = Min(n, Cardinality(groups))
        /\ \A x \in S, y \in groups \ S :
              IsNum(y.amount) => (IsNum(x.amount) /\ Val(x.amount) >= Val(y.amount))}

\* n / d to the nearest integer, a tie to the even one (d > 0)
RoundHalfEven(n, d) ==
    LET q == n \div d
        r == n - q * d
    IN  IF 2 * r < d THEN q
        ELSE IF 2 * r > d THEN q + 1
        ELSE IF q % 2 = 0 THEN q ELSE q + 1

\* round((total_gf / total_expense * 100) if total_expense else 0, 1), in
\* tenths of a percent
GfPct(total_gf, total_expense) ==
    IF total_expense = 0 THEN 0
    ELSE IF total_expense > 0 THEN RoundHalfEven(1000 * total_gf, total_expense)
    ELSE RoundHalfEven(-1000 * total_gf, -total_expense)

BudgetExpense == <<Cond("source", "=", "budget"), Cond("revenue_or_expense", "=", "Expense")>>

\* The three statements of get_overview; the fund_type argument goes into
\* none of them
OverviewStatements(fy_min, fy_max, cycle, fund_type, dept_group) ==
    <<Statement("dept_budget_trends",
                Q(Where(Num(fy_min), Num(fy_max), cycle, None, dept_group,
                        {"budget_cycle", "dept_group"}),
                  BudgetExpense)),
      Statement("revenue_breakdown",
                Q(Where(Num(fy_min), Num(fy_max), cycle, None, None, {"budget_cycle"}),
                  <<Cond("source", "=", "budget")>>)),
      Statement("fund_allocation",
                Q(Where(Num(fy_min), Num(fy_max), cycle, "General Fund", None,
                        {"budget_cycle", "fund_type"}),
                  BudgetExpense))>>

\* SELECT COALESCE(SUM(amount), 0) FROM '<target>.parquet' <where>
Total(a, st) == SumOrZero(Select(a[st.target].rows, st.where))

\* get_overview(fy_min, fy_max, cycle, fund_type, dept_group);
\* general_fund_pct is in tenths of a percent
GetOverview ==
    /\ Idle
    /\ vproc = NoProcess
    /\ response = NoResponse
    /\ \E fy_min \in QueryYears, fy_max \in QueryYears, cycle \in Cycles,
          fund_type \in FundTypes, dept_group \in DeptGroups :
          LET sts == OverviewStatements(fy_min, fy_max, cycle, fund_type, dept_group)
          IN  IF RunStatements(agg, sts) # "ok"
              THEN response' = ErrorResponse(agg, sts)
              ELSE response' = [kind |-> "overview",
                                total_expense |-> Total(agg, sts[1]),
                                total_revenue |-> Total(agg, sts[2]),
                                general_fund_pct |->
                                    GfPct(Total(agg, sts[3]), Total(agg, sts[1])),
                                sql |-> sts]
    /\ UNCHANGED <<raw, db, processed, agg, pc, aggIdx, error, written, vproc, partial, log, ing, requests>>

\* get_department_spending(fy_min, fy_max, cycle, dept_group, limit)
DepartmentSpendingStatement(fy_min, fy_max, cycle, dept_group) ==
    Statement("dept_budget_trends",
              Q(Where(Num(fy_min), Num(fy_max), cycle, None, dept_group,
                      {"budget_cycle", "dept_group"}),
                BudgetExpense))

GetDepartmentSpending ==
    /\ Idle
    /\ vproc = NoProcess
    /\ response = NoResponse
    /\ \E fy_min \in QueryYears, fy_max \in QueryYears, cycle \in Cycles,
          dept_group \in DeptGroups, limit \in QueryLimits :
          LET sts == <<DepartmentSpendingStatement(fy_min, fy_max, cycle, dept_group)>>
          IN  IF RunStatements(agg, sts) # "ok"
              THEN response' = ErrorResponse(agg, sts)
              ELSE \E S \in TopByAmount(
                               GroupSumRows(Select(agg.dept_budget_trends.rows, sts[1].where),
                                            {"dept_name"}), limit) :
                      response' = [kind |-> "department_spending", rows |-> S, sql |-> sts]
    /\ UNCHANGED <<raw, db, processed, agg, pc, aggIdx, error, written, vproc, partial, log, ing, requests>>

\* get_fund_allocation(fy_min, fy_max, cycle)
FundAllocationStatement(fy_min, fy_max, cycle) ==
    Statement("fund_allocation",
              Q(Where(Num(fy_min), Num(fy_max), cycle, None, None,
                      {"budget_cycle", "fund_type"}),
                BudgetExpense))

GetFundAllocation ==
    /\ Idle
    /\ vproc = NoProcess
    /\ response = NoResponse
    /\ \E fy_min \in QueryYears, fy_max \in QueryYears, cycle \in Cycles :
          LET sts == <<FundAllocationStatement(fy_min, fy_max, cycle)>>
          IN  IF RunStatements(agg, sts) # "ok"
              THEN response' = ErrorResponse(agg, sts)
              ELSE response' =
                      [kind |-> "fund_allocation",
                       rows |-> GroupSumRows(Select(agg.fund_allocation.rows, sts[1].where),
                                             {"fund_type"}),
                       sql |-> sts]
    /\ UNCHANGED <<raw, db, processed, agg, pc, aggIdx, error, written, vproc, partial, log, ing, requests>>

\* get_revenue_sources(fy_min, fy_max, cycle)
RevenueSourcesStatement(fy_min, fy_max, cycle) ==
    Statement("revenue_breakdown",
              Q(Where(Num(fy_min), Num(fy_max), cycle, None, None, {"budget_cycle"}),
                <<Cond("source", "=", "budget")>>))

GetRevenueSources ==
    /\ Idle
    /\ vproc = NoProcess
    /\ response = NoResponse
    /\ \E fy_min \in QueryYears, fy_max \in QueryYears, cycle \in Cycles :
          LET sts == <<RevenueSourcesStatement(fy_min, fy_max, cycle)>>
          IN  IF RunStatements(agg, sts) # "ok"
              THEN response' = ErrorResponse(agg, sts)
              ELSE response' =
                      [kind |-> "revenue_sources",
                       rows |-> GroupSumRows(Select(agg.revenue_breakdown.rows, sts[1].where),
                                             {"account_type"}),
                       sql |-> sts]
    /\ UNCHANGED <<raw, db, processed, agg, pc, aggIdx, error, written, vproc, partial, log, ing, requests>>

\* SUM(CASE WHEN source = src THEN amount ELSE 0 END) over a group of rows
SumCase(S, src) ==
    LET hit == {r \in S : r.source = src}
    IN  IF S \ hit = {} /\ ~\E r \in hit : IsNum(r.amount) THEN NoNum
        ELSE Num(SumSet({r \in hit : IsNum(r.amount)}, "amount"))

DeptNames == {"Police", "Parks"}

\* get_department_detail(dept_name, fy_min, fy_max)
DepartmentDetailStatement(dept_name, fy_min, fy_max) ==
    Statement("dept_detail",
              Q(Q(Where(Num(fy_min), Num(fy_max), None, None, None,
                        {"budget_cycle", "dept_group"}),
                  <<Cond("revenue_or_expense", "=", "Expense")>>),
                <<Cond("dept_name", "=", dept_name)>>))

DepartmentDetailRows(sel) ==
    LET key(r) == [division |-> r.dept_division, account_class |-> r.account_class]
    IN  {k @@ [budget |-> SumCase({r \in sel : key(r) = k}, "budget"),
               actual |-> SumCase({r \in sel : key(r) = k}, "actual")]
         : k \in {key(r) : r \in sel}}

GetDepartmentDetail ==
    /\ Idle
    /\ vproc = NoProcess
    /\ response = NoResponse
    /\ \E dept_name \in DeptNames, fy_min \in QueryYears, fy_max \in QueryYears :
          LET sts == <<DepartmentDetailStatement(dept_name, fy_min, fy_max)>>
          IN  IF RunStatements(agg, sts) # "ok"
              THEN response' = ErrorResponse(agg, sts)
              ELSE response' =
                      [kind |-> "department_detail",
                       rows |-> DepartmentDetailRows(
                                    Select(agg.dept_detail.rows, sts[1].where)),
                       sql |-> sts]
    /\ UNCHANGED <<raw, db, processed, agg, pc, aggIdx, error, written, vproc, partial, log, ing, requests>>

\* get_spending_trends(fy_min, fy_max)
SpendingTrendsStatement(fy_min, fy_max) ==
    Statement("dept_budget_trends",
              Q(Where(Num(fy_min), Num(fy_max), "adopted", None, None,
                      {"budget_cycle", "dept_group"}),
                BudgetExpense \o <<Cond("dept_group", "IS NOT NULL", None)>>))

GetSpendingTrends ==
    /\ Idle
    /\ vproc = NoProcess
    /\ response = NoResponse
    /\ \E fy_min \in QueryYears, fy_max \in QueryYears :
          LET sts == <<SpendingTrendsStatement(fy_min, fy_max)>>
          IN  IF RunStatements(agg, sts) # "ok"
              THEN response' = ErrorResponse(agg, sts)
              ELSE response' =
                      [kind |-> "spending_trends",
                       rows |-> GroupSumRows(
                                    Select(agg.dept_budget_trends.rows, sts[1].where),
                                    {"fiscal_year", "dept_group"}),
                       sql |-> sts]
    /\ UNCHANGED <<raw, db, processed, agg, pc, aggIdx, error, written, vproc, partial, log, ing, requests>>

Depts == {None, "Public Utilities"}

\* get_capital_projects(fy_min, fy_max, dept, limit)
CapitalProjectsStatement(fy_min, fy_max, dept) ==
    Statement("cip_by_dept",
              Q(Q(Where(Num(fy_min), Num(fy_max), None, None, None, {}),
                  <<Cond("source", "=", "budget")>>),
                IF Truthy(dept) THEN <<Cond("asset_owning_dept", "=", dept)>> ELSE <<>>))

GetCapitalProjects ==
    /\ Idle
    /\ vproc = NoProcess
    /\ response = NoResponse
    /\ \E fy_min \in QueryYears, fy_max \in QueryYears, dept \in Depts,
          limit \in QueryLimits :
          LET sts == <<CapitalProjectsStatement(fy_min, fy_max, dept)>>
          IN  IF RunStatements(agg, sts) # "ok"
              THEN response' = ErrorResponse(agg, sts)
              ELSE \E S \in TopByAmount(
                               GroupSumRows(Select(agg.cip_by_dept.rows, sts[1].where),
                                            {"asset_owning_dept", "project_name"}), limit) :
                      response' = [kind |-> "capital_projects", rows |-> S, sql |-> sts]
    /\ UNCHANGED <<raw, db, processed, agg, pc, aggIdx, error, written, vproc, partial, log, ing, requests>>

\* The four statements of get_filter_options
FilterOptionsStatements ==
    <<Statement("dept_budget_trends", <<Cond("fiscal_year", "IS NOT NULL", None)>>),
      Statement("dept_budget_trends", <<Cond("budget_cycle", "IS NOT NULL", None)>>),
      Statement("fund_allocation", <<Cond("fund_type", "IS NOT NULL", None)>>),
      Statement("dept_budget_trends", <<Cond("dept_group", "IS NOT NULL", None)>>)>>

\* SELECT DISTINCT col FROM '<target>.parquet' <where>
Distinct(a, st, col) == {r[col] : r \in Select(a[st.target].rows, st.where)}

\* get_filter_options()
GetFilterOptions ==
    /\ Idle
    /\ vproc = NoProcess
    /\ response = NoResponse
    /\ LET sts == FilterOptionsStatements
       IN  IF RunStatements(agg, sts) # "ok"
           THEN response' = ErrorResponse(agg, sts)
           ELSE response' =
                   [kind |-> "filter_options",
                    fiscal_years |-> {Val(y) : y \in Distinct(agg, sts[1], "fiscal_year")},
                    budget_cycles |-> Distinct(agg, sts[2], "budget_cycle"),
                    fund_types |-> Distinct(agg, sts[3], "fund_type"),
                    dept_groups |-> Distinct(agg, sts[4], "dept_group"),
                    sql |-> sts]
    /\ UNCHANGED <<raw, db, processed, agg, pc, aggIdx, error, written, vproc, partial, log, ing, requests>>

----------------------------------------------------------------------------
(* dashboard/app.py: the sidebar filters and the statements built from them *)

\* The same builder with the has_* flags ignored.
WhereClauseAllColumns(yr, cycle, fund_types, dept_groups, has) ==
    <<Cond("fiscal_year", "BETWEEN", yr)>>
    \o (IF cycle # "All" THEN <<Cond("budget_cycle", "=", cycle)>> ELSE <<>>)
    \o (IF fund_types # {} THEN <<Cond("fund_type", "IN", fund_types)>> ELSE <<>>)
    \o (IF dept_groups # {} THEN <<Cond("dept_group", "IN", dept_groups)>> ELSE <<>>)

\* _where_clause(yr, cycle, fund_types, dept_groups, *, has_fund_type,
\* has_dept_group); has is the set of the two columns whose flag is True
WhereClause(yr, cycle, fund_types, dept_groups, has) ==
    <<Cond("fiscal_year", "BETWEEN", yr)>>
    \o (IF cycle # "All" THEN <<Cond("budget_cycle", "=", cycle)>> ELSE <<>>)
    \o (IF fund_types # {} /\ "fund_type" \in has
        THEN <<Cond("fund_type", "IN", fund_types)>> ELSE <<>>)
    \o (IF dept_groups # {} /\ "dept_group" \in has
        THEN <<Cond("dept_group", "IN", dept_groups)>> ELSE <<>>)

\* The statements of the script that use WHERE_NO_FUND, WHERE_NO_BOTH and
\* WHERE_NO_DEPT, in the order they are issued
DashboardStatements(yr, cycle, fund_types, dept_groups) ==
    LET WHERE_NO_DEPT == WhereClause(yr, cycle, fund_types, dept_groups, {"fund_type"})
        WHERE_NO_FUND == WhereClause(yr, cycle, fund_types, dept_groups, {"dept_group"})
        WHERE_NO_BOTH == WhereClause(yr, cycle, fund_types, dept_groups, {})
    IN  <<Statement("dept_budget_trends", Q(WHERE_NO_FUND, BudgetExpense)),
          Statement("revenue_breakdown", Q(WHERE_NO_BOTH, <<Cond("source", "=", "budget")>>)),
          Statement("fund_allocation",
                    Q(WHERE_NO_DEPT,
                      <<Cond("fund_type", "=", "General Fund")>> \o BudgetExpense)),
          Statement("dept_budget_trends", Q(WHERE_NO_FUND, BudgetExpense)),
          Statement("fund_allocation", Q(WHERE_NO_DEPT, BudgetExpense)),
          Statement("revenue_breakdown", Q(WHERE_NO_BOTH, <<Cond("source", "=", "budget")>>)),
          Statement("dept_detail", Q(WHERE_NO_FUND, BudgetExpense)),
          Statement("general_fund_summary", Q(WHERE_NO_FUND, BudgetExpense))>>

\* One run of the script with the sidebar set: the statements it issues, or
\* the error that stops it.  The charts drawn from the results are not kept.
DashboardRun ==
    /\ Idle
    /\ vproc = NoProcess
    /\ response = NoResponse
    /\ \E lo \in QueryYears, hi \in QueryYears, cycle \in {"All", "adopted"},
          fund_types \in {{}, {"General Fund"}}, dept_groups \in {{}, {"Public Safety"}} :
          LET sts == DashboardStatements(<<lo, hi>>, cycle, fund_types, dept_groups)
          IN  IF RunStatements(agg, sts) # "ok"
              THEN response' = ErrorResponse(agg, sts)
              ELSE response' = [kind |-> "dashboard", sql |-> sts]
    /\ UNCHANGED <<raw, db, processed, agg, pc, aggIdx, error, written, vproc, partial, log, ing, requests>>

----------------------------------------------------------------------------
(* pipeline/validate.py *)

\* The module globals passed, failed, warnings of a new process, and the
\* PASS/FAIL/WARN lines printed so far.
NewTally == [passed |-> 0, failed |-> 0, warnings |-> 0, report |-> <<>>]

\* _check(name, ok)
Check(t, ok) ==
    IF ok THEN [t EXCEPT !.passed = @ + 1, !.report = Append(@, "PASS")]
    ELSE [t EXCEPT !.failed = @ + 1, !.report = Append(@, "FAIL")]

\* A warning counted as a failure.
WarnAsFailure(t) == [t EXCEPT !.failed = @ + 1, !.report = Append(@, "WARN")]

\* _warn(name, detail)
Warn(t) == [t EXCEPT !.warnings = @ + 1, !.report = Append(@, "WARN")]

\* The calls validate() makes, in order: "ok" is _check(.., True), "bad" is
\* _check(.., False), "warn" is _warn(..)
Ok(b) == IF b THEN "ok" ELSE "bad"

\* The effect of one call on the counters and the report
Call(t, c) == IF c = "warn" THEN Warn(t) ELSE Check(t, c = "ok")

\* The tally after the calls, in order: each call adds its own increments to
\* the three global counters and its own line to the report
RunCalls(calls) ==
    LET step == [i \in DOMAIN calls |-> Call(NewTally, calls[i])]
        Count(F(_)) == Cardinality({i \in DOMAIN calls : F(step[i]) = 1})
        P(t) == t.passed
        F(t) == t.failed
        W(t) == t.warnings
    IN  [passed |-> Count(P), failed |-> Count(F), warnings |-> Count(W),
         report |-> [i \in DOMAIN calls |-> step[i].report[1]]]

\* A list one name short of expected_aggs.
expected_aggs_nine ==
    <<"sankey_revenue", "sankey_expense", "dept_budget_trends",
      "fund_allocation", "budget_vs_actuals", "revenue_breakdown",
      "dept_detail", "council_offices", "general_fund_summary">>

\* expected_aggs: the aggregate files the validator looks for
expected_aggs ==
    <<"sankey_revenue", "sankey_expense", "dept_budget_trends",
      "fund_allocation", "budget_vs_actuals", "revenue_breakdown",
      "dept_detail", "council_offices", "general_fund_summary", "cip_by_dept">>

\* 1. File existence
ExistenceCalls(p, a) ==
    <<Ok(p.exists)>> \o [i \in 1..Len(expected_aggs) |-> Ok(a[expected_aggs[i]].exists)]

\* 2. Row counts
RowCountCalls(a) ==
    LET there == SelectSeq(expected_aggs, LAMBDA n : a[n].exists)
    IN  [i \in 1..Len(there) |-> Ok(a[there[i]].rows # {})]

\* 3. Double-counting guards, over dept_budget_trends
DoubleCountingCalls(trends) ==
    LET adopted25 == {r \in trends : /\ r.source = "budget"
                                     /\ r.budget_cycle = "adopted"
                                     /\ r.fiscal_year = Num(2025)}
        expense_total == SumOrZero({r \in adopted25 : r.revenue_or_expense = "Expense"})
        unfiltered_total == SumOrZero(adopted25)
    IN  <<Ok(1 < expense_total /\ expense_total < 8),
          Ok(10 * unfiltered_total > 13 * expense_total)>>

\* 4. revenue_or_expense column present where needed
RequiredColumnCalls(a) ==
    LET there == SelectSeq(<<"dept_budget_trends", "fund_allocation", "dept_detail",
                             "general_fund_summary">>, LAMBDA n : a[n].exists)
    IN  [i \in 1..Len(there) |-> Ok("revenue_or_expense" \in AggColumns(there[i]))]

\* The same section reporting the duplication through _check(.., False).
CycleCallAsFailure(trends, fy) ==
    LET cycle_list == {r.budget_cycle :
                          r \in {x \in trends : x.fiscal_year = Num(fy) /\ x.source = "budget"}}
    IN  IF "adopted" \in cycle_list /\ "proposed" \in cycle_list THEN "bad" ELSE "ok"

\* 5. Budget cycle duplication, for FY2024 and FY2025
CycleCall(trends, fy) ==
    LET cycle_list == {r.budget_cycle :
                          r \in {x \in trends : x.fiscal_year = Num(fy) /\ x.source = "budget"}}
    IN  IF "adopted" \in cycle_list /\ "proposed" \in cycle_list THEN "warn" ELSE "ok"

CycleCalls(trends) == <<CycleCall(trends, 2024), CycleCall(trends, 2025)>>

\* MAX(fiscal_year) of a file is not None and >= 2024
RecentData(rows) == \E r \in rows : IsNum(r.fiscal_year) /\ Val(r.fiscal_year) >= 2024

\* 6. Sankey integrity
SankeyCalls(a) ==
    IF ~(a.sankey_revenue.exists /\ a.sankey_expense.exists) THEN <<>>
    ELSE LET rev == a.sankey_revenue.rows
             exp == a.sankey_expense.rows
             rev_total == SumOrZero({r \in rev : r.fiscal_year = Num(2025)
                                                 /\ r.budget_cycle = "adopted"})
             exp_total == SumOrZero({r \in exp : r.fiscal_year = Num(2025)
                                                 /\ r.budget_cycle = "adopted"})
             hi == IF rev_total >= exp_total THEN rev_total ELSE exp_total
             lo == Min(rev_total, exp_total)
         IN  <<Ok(~\E r \in rev : r.revenue_source \in ExpenseTypes),
               Ok(~\E r \in exp : r.dept_group = "Major Revenues"),
               Ok(RecentData(rev)),
               Ok(RecentData(exp))>>
             \o (IF rev_total > 0 /\ exp_total > 0 THEN <<Ok(hi < 2 * lo)>> ELSE <<>>)

\* col_expectations: the aggregates whose dept_group / fund_type column must exist
ColExpectations ==
    <<[name |-> "dept_budget_trends", dept_group |-> TRUE, fund_type |-> FALSE],
      [name |-> "fund_allocation", dept_group |-> FALSE, fund_type |-> TRUE],
      [name |-> "revenue_breakdown", dept_group |-> FALSE, fund_type |-> FALSE],
      [name |-> "dept_detail", dept_group |-> TRUE, fund_type |-> FALSE],
      [name |-> "general_fund_summary", dept_group |-> TRUE, fund_type |-> FALSE],
      [name |-> "budget_vs_actuals", dept_group |-> TRUE, fund_type |-> FALSE],
      [name |-> "council_offices", dept_group |-> FALSE, fund_type |-> FALSE],
      [name |-> "cip_by_dept", dept_group |-> FALSE, fund_type |-> FALSE]>>

\* A check that wants a column there exactly when the table says so.
ColumnCallExact(e, col, cols) == Ok((col \in cols) = e[col])

\* One column of one aggregate with the columns cols: a column that should
\* exist is checked, one that need not passes whether it is there or not
ColumnCall(e, col, cols) == IF e[col] THEN Ok(col \in cols) ELSE "ok"

\* 7. Column availability
ColumnCalls(a) ==
    LET there == SelectSeq(ColExpectations, LAMBDA e : a[e.name].exists)
    IN  Flatten([i \in 1..Len(there) |->
                    <<ColumnCall(there[i], "dept_group", AggColumns(there[i].name)),
                      ColumnCall(there[i], "fund_type", AggColumns(there[i].name))>>])

\* 8. Fiscal year range
FiscalYearRangeCalls(p) ==
    IF ~p.exists THEN <<>>
    ELSE LET years == {Val(p.rows[i].fiscal_year) :
                          i \in {j \in 1..Len(p.rows) : IsNum(p.rows[j].fiscal_year)}}
         IN  <<Ok(years # {} /\ \A y \in years : y >= 2010),
               Ok(years # {} /\ \A y \in years : y <= 2030)>>

\* "pct > 10" with pct = null_count / total_rows * 100 (0 for an empty file)
NullRateCall(null_count, total_rows) ==
    IF total_rows > 0 /\ 10 * null_count > total_rows THEN "warn" ELSE "ok"

\* 9. NULL rate on critical columns
NullRateCalls(p) ==
    IF ~p.exists THEN <<>>
    ELSE LET n == Len(p.rows)
         IN  <<NullRateCall(Cardinality({i \in 1..n : p.rows[i].revenue_or_expense = NULL}), n),
               NullRateCall(Cardinality({i \in 1..n : ~IsNum(p.rows[i].fiscal_year)}), n),
               NullRateCall(Cardinality({i \in 1..n : ~IsNum(p.rows[i].amount)}), n)>>

\* SELECT DISTINCT fiscal_year FROM budget_vs_actuals WHERE actual_amount != 0
ActualsYears(bva) == {r.fiscal_year : r \in {x \in bva : NotZero(x.actual_amount)}}

\* 11. Parquet file sizes; the sizes are those of the files on disk
FileSizeCalls(p, a, procBig, aggBig) ==
    <<Ok(~(p.exists /\ procBig)),
      Ok(~((\E n \in Range(expected_aggs) : a[n].exists) /\ aggBig))>>

\* validate(): the calls made, and whether an exception ended it.  Reading
\* dept_budget_trends.parquet when it is missing raises in section 3; in
\* section 10 the detail string indexes fy_list[0], which raises when no
\* year has actuals.
Validate(p, a, procBig, aggBig) ==
    IF ~a.dept_budget_trends.exists
    THEN [calls |-> ExistenceCalls(p, a) \o RowCountCalls(a), raised |-> TRUE]
    ELSE LET upTo9 == ExistenceCalls(p, a) \o RowCountCalls(a)
                      \o DoubleCountingCalls(a.dept_budget_trends.rows)
                      \o RequiredColumnCalls(a)
                      \o CycleCalls(a.dept_budget_trends.rows)
                      \o SankeyCalls(a)
                      \o ColumnCalls(a)
                      \o FiscalYearRangeCalls(p)
                      \o NullRateCalls(p)
             fy_list == ActualsYears(a.budget_vs_actuals.rows)
         IN  IF ~a.budget_vs_actuals.exists
             THEN [calls |-> upTo9 \o FileSizeCalls(p, a, procBig, aggBig),
                   raised |-> FALSE]
             ELSE IF fy_list = {}
             THEN [calls |-> upTo9 \o <<"bad", "bad">>, raised |-> TRUE]
             ELSE [calls |-> upTo9
                             \o <<Ok(Num(2011) \in fy_list), Ok(Num(2023) \in fy_list),
                                  Ok(Cardinality(fy_list) >= 10)>>
                             \o FileSizeCalls(p, a, procBig, aggBig),
                   raised |-> FALSE]

\* sys.exit(1 if failures > 0 else 0); an uncaught exception ends the
\* process with status 1
ExitStatus(failures, raised) == IF raised THEN 1 ELSE IF failures > 0 THEN 1 ELSE 0

\* A validator that removes the fact file it has found a failure in.
ValidatorMainCleaning ==
    /\ Idle
    /\ vproc = NoProcess
    /\ response = NoResponse
    /\ \E procBig \in BOOLEAN, aggBig \in BOOLEAN :
          LET v == Validate(processed, agg, procBig, aggBig)
              t == RunCalls(v.calls)
          IN  /\ vproc' = [state |-> "exited",
                           passed |-> t.passed, failed |-> t.failed,
                           warnings |-> t.warnings, report |-> t.report,
                           raised |-> v.raised,
                           exit |-> ExitStatus(t.failed, v.raised)]
              /\ processed' = IF t.failed > 0 THEN NoFile ELSE processed
    /\ UNCHANGED <<raw, db, agg, pc, aggIdx, error, written, response, partial, log, ing, requests>>

\* python -m pipeline.validate: main() in a new process
ValidatorMain ==
    /\ Idle
    /\ vproc = NoProcess
    /\ response = NoResponse
    /\ \E procBig \in BOOLEAN, aggBig \in BOOLEAN :
          LET v == Validate(processed, agg, procBig, aggBig)
              t == RunCalls(v.calls)
          IN  vproc' = [state |-> "exited",
                        passed |-> t.passed, failed |-> t.failed,
                        warnings |-> t.warnings, report |-> t.report,
                        raised |-> v.raised,
                        exit |-> ExitStatus(t.failed, v.raised)]
    /\ UNCHANGED <<raw, db, processed, agg, pc, aggIdx, error, written, response, partial, log, ing, requests>>

\* The exit status has been collected; the process and its globals are gone.
ValidatorReaped ==
    /\ vproc.state = "exited"
    /\ vproc' = NoProcess
    /\ UNCHANGED <<raw, db, processed, agg, pc, aggIdx, error, written, response, partial, log, ing, requests>>

----------------------------------------------------------------------------
(* A complete dataset: ten years of actuals, FY2025 expense and revenue *)

ActualYears == <<11, 12, 13, 14, 15, 16, 17, 18, 19, 23>>

HealthyBudget ==
    <<OpBudget(<<"2">>, <<"2", "5">>, "adopted", "5001", "1914", "Police", "General Fund"),
      OpBudget(<<"2">>, <<"2", "5">>, NULL, "7001", "9000", "Citywide", "General Fund"),
      OpBudget(<<"1">>, <<"2", "5">>, "adopted", "4001", "1101", "Council District 1",
               "General Fund")>>

ExtraBudgetRows ==
    {<<>>,
     <<OpBudget(<<"1">>, <<"2", "5">>, "proposed", "5001", "1914", "Police", "General Fund")>>,
     <<OpBudget(<<"N", "/", "A">>, <<"2", "5">>, "adopted", "5001", "1914", "Police",
                "General Fund"),
       OpBudget(<<>>, <<"2", "5">>, "adopted", "5001", "1914", "Police", "General Fund")>>,
     <<OpBudget(<<"9">>, <<"2", "5">>, "adopted", "5001", "1914", "Police", "General Fund")>>}

HealthyActuals(years) ==
    [i \in 1..Len(years) |->
        OpActual(<<"2">>, TwoDigits(years[i]), "5001", "1914", "Police", "General Fund")]
    \o <<OpActual(<<"1">>, <<"2", "3">>, "7001", "9000", "Citywide", "General Fund")>>

HealthyDirs ==
    {[BaseDir EXCEPT
        !.operating_budget = File(HealthyBudget \o x),
        !.operating_actuals = File(HealthyActuals(y))]
     : x \in ExtraBudgetRows, y \in {ActualYears, Tail(ActualYears)}}

----------------------------------------------------------------------------

\* db/budget.duckdb is a file: duckdb.connect opens whatever an earlier run
\* left in it. The raw directory of such an earlier run differs from the base
\* one in its department table.
EarlierDir ==
    [BaseDir EXCEPT !.ref_departments =
        File(<<[funds_center_number |-> "1914", dept_group |-> "Neighborhood Services",
                dept_division |-> "Patrol"]>>)]

EmptyDb == [t \in Tables |-> NoTable]

\* The nine tables a complete run over the directory d leaves behind.
DbAfter(d) ==
    [t \in Tables |->
        CASE t \in RefFiles -> ReadCsv(d[t])
          [] t = "raw_op_budget" -> ReadCsv(d.operating_budget)
          [] t = "raw_op_actuals" -> ReadCsv(d.operating_actuals)
          [] t = "operating" ->
                Table(OperatingQuery(d.operating_budget.rows, d.operating_actuals.rows,
                                     d.ref_accounts.rows, d.ref_departments.rows,
                                     d.ref_funds.rows))
          [] t = "raw_cip_budget" -> ReadCsv(d.cip_budget_fy)
          [] t = "raw_cip_actuals" -> ReadCsv(d.cip_actuals_fy)
          [] t = "cip" -> Table(CipQuery(d.cip_budget_fy.rows, d.cip_actuals_fy.rows))]

InitDbs == {EmptyDb, DbAfter(EarlierDir)}

RawDirs ==
    HealthyDirs \cup DimensionDirs \cup MissingFactDirs \cup AmountDirs \cup CipAmountDirs
    \cup CycleDirs \cup ClassifyDirs \cup FiscalYearDirs \cup MajorRevenueDirs

Init ==
    /\ raw \in RawDirs
    /\ db \in InitDbs
    /\ processed = NoFile
    /\ agg = [n \in AggNames |-> NoAgg]
    /\ partial = {}
    /\ log = <<>>
    /\ ing = NoIngest
    /\ requests = 0
    /\ pc = "idle"
    /\ aggIdx = 0
    /\ error = "none"
    /\ written = {}
    /\ vproc = NoProcess
    /\ response = NoResponse

Next ==
    \/ StartTransform
    \/ LoadReferenceTables
    \/ BuildOperatingTable
    \/ BuildCipTable
    \/ OpenProcessed
    \/ ExportProcessed
    \/ OpenAggregate
    \/ BuildAggregations
    \/ GetBudgetVsActuals
    \/ ResponseReturned
    \/ ValidatorMain
    \/ ValidatorReaped

Spec == Init /\ [][Next]_vars

\* The extracts the query layer is exercised on: the complete datasets
QueryDirs == HealthyDirs \cup {BaseDir}

QueryInit == Init /\ raw \in QueryDirs

\* The pipeline, every function of the query layer and the dashboard
QueryNext ==
    \/ StartTransform
    \/ LoadReferenceTables
    \/ BuildOperatingTable
    \/ BuildCipTable
    \/ OpenProcessed
    \/ ExportProcessed
    \/ OpenAggregate
    \/ BuildAggregations
    \/ GetFilterOptions
    \/ GetOverview
    \/ GetDepartmentSpending
    \/ GetFundAllocation
    \/ GetRevenueSources
    \/ GetBudgetVsActuals
    \/ GetDepartmentDetail
    \/ GetSpendingTrends
    \/ GetCapitalProjects
    \/ DashboardRun
    \/ ResponseReturned

QuerySpec == QueryInit /\ [][QueryNext]_vars

\* The column check of validate() (section 7) applied to one aggregate file
\* whose schema is any set of these columns.
SchemaColumns == {"dept_group", "fund_type", "fiscal_year", "amount"}

\* One turn of the loop over col_expectations, for a file with the columns
\* cols: the two _check calls and the counters after them
ColumnCheckRun ==
    /\ Idle
    /\ vproc = NoProcess
    /\ response = NoResponse
    /\ \E i \in 1..Len(ColExpectations), cols \in SUBSET SchemaColumns :
          LET e == ColExpectations[i]
              t == RunCalls(<<ColumnCall(e, "dept_group", cols),
                              ColumnCall(e, "fund_type", cols)>>)
          IN  vproc' = [state |-> "exited",
                        passed |-> t.passed, failed |-> t.failed,
                        warnings |-> t.warnings, report |-> t.report,
                        raised |-> FALSE,
                        exit |-> ExitStatus(t.failed, FALSE),
                        expected |-> e, cols |-> cols]
    /\ UNCHANGED <<raw, db, processed, agg, pc, aggIdx, error, written, response, partial, log, ing, requests>>

SchemaInit == Init /\ raw = BaseDir /\ db = EmptyDb

SchemaNext ==
    \/ ColumnCheckRun
    \/ ValidatorReaped

SchemaSpec == SchemaInit /\ [][SchemaNext]_vars

----------------------------------------------------------------------------
(* pipeline/validate.py: validate() called from a process that stays *)

\* Calls of validate() one process makes.
MaxCalls == 2

\* import pipeline.validate: the module globals passed, failed, warnings = 0
ImportValidate ==
    /\ Idle
    /\ vproc = NoProcess
    /\ response = NoResponse
    /\ vproc' = [state |-> "session", passed |-> 0, failed |-> 0, warnings |-> 0,
                 calls |-> 0, report |-> <<>>, raised |-> FALSE, returned |-> NoNum]
    /\ UNCHANGED <<raw, db, processed, agg, pc, aggIdx, error, written, response, partial,
                   log, ing, requests>>

\* validate(): every _check and _warn adds to the globals, which no call
\* sets back; "return failed" returns the global. report holds the lines
\* this call has printed; a call that raises returns nothing.
CallValidate ==
    /\ Idle
    /\ vproc.state = "session"
    /\ vproc.calls < MaxCalls
    /\ \E procBig \in BOOLEAN, aggBig \in BOOLEAN :
          LET v == Validate(processed, agg, procBig, aggBig)
              t == RunCalls(v.calls)
          IN  vproc' = [state |-> "session",
                        passed |-> vproc.passed + t.passed,
                        failed |-> vproc.failed + t.failed,
                        warnings |-> vproc.warnings + t.warnings,
                        calls |-> vproc.calls + 1,
                        report |-> t.report,
                        raised |-> v.raised,
                        returned |-> IF v.raised THEN NoNum
                                     ELSE Num(vproc.failed + t.failed)]
    /\ UNCHANGED <<raw, db, processed, agg, pc, aggIdx, error, written, response, partial,
                   log, ing, requests>>

\* The process ends; its globals are gone.
SessionExit ==
    /\ vproc.state = "session"
    /\ vproc' = NoProcess
    /\ UNCHANGED <<raw, db, processed, agg, pc, aggIdx, error, written, response, partial,
                   log, ing, requests>>

SessionInit == Init /\ raw \in QueryDirs

SessionNext ==
    \/ StartTransform
    \/ LoadReferenceTables
    \/ BuildOperatingTable
    \/ BuildCipTable
    \/ OpenProcessed
    \/ ExportProcessed
    \/ OpenAggregate
    \/ BuildAggregations
    \/ ImportValidate
    \/ CallValidate
    \/ SessionExit

SessionSpec == SessionInit /\ [][SessionNext]_vars

----------------------------------------------------------------------------
(* pipeline/transform.py: a run over the artifacts of an earlier run *)

\* The artifacts a complete run over the directory d publishes.
RunOutputs(d) ==
    [processed |-> File(UnifiedFact(DbAfter(d).operating.rows, DbAfter(d).cip.rows)),
     agg |-> [n \in AggNames |->
                [exists |-> TRUE,
                 rows |-> AggQuery(n, DbAfter(d).operating.rows, DbAfter(d).cip.rows)]]]

\* A COPY statement of the export or of _build_aggregations raises (the disk
\* is full, the target cannot be written) or the process is ended: nothing
\* catches it, and the files written so far stay where they are
CopyFails ==
    /\ pc \in {"export", "agg"}
    /\ pc' = "aborted"
    /\ error' = "IOException"
    /\ UNCHANGED <<raw, db, processed, agg, aggIdx, written, vproc, partial, log, ing,
                   requests, response>>

\* Nothing published yet, or the database and artifacts of a complete
\* earlier run over EarlierDir.
RerunInit ==
    /\ raw \in QueryDirs
    /\ \/ /\ db = EmptyDb
          /\ processed = NoFile
          /\ agg = [n \in AggNames |-> NoAgg]
       \/ /\ db = DbAfter(EarlierDir)
          /\ processed = RunOutputs(EarlierDir).processed
          /\ agg = RunOutputs(EarlierDir).agg
    /\ partial = {}
    /\ log = <<>>
    /\ ing = NoIngest
    /\ requests = 0
    /\ pc = "idle"
    /\ aggIdx = 0
    /\ error = "none"
    /\ written = {}
    /\ vproc = NoProcess
    /\ response = NoResponse

RerunNext ==
    \/ StartTransform
    \/ LoadReferenceTables
    \/ BuildOperatingTable
    \/ BuildCipTable
    \/ OpenProcessed
    \/ ExportProcessed
    \/ OpenAggregate
    \/ BuildAggregations
    \/ CopyFails

RerunSpec == RerunInit /\ [][RerunNext]_vars

----------------------------------------------------------------------------
(* api/queries.py and dashboard/app.py: the text of a WHERE clause *)

\* A statement's text is a sequence of symbols: a keyword, a column name, an
\* operator or a number is one symbol, and so is each character of a string
\* value. The characters a filter value is made of: a letter, the
\* apostrophe chr(39), and the characters ' AND ' taken as one symbol.
Chars == {"a", "'", "AND"}

\* Longest filter value.
MaxLen == 2

\* The filter values: every string of up to MaxLen characters.
Values == UNION {[1..n -> Chars] : n \in 0..MaxLen}

\* A str | None argument: <<v>> for the string v, <<>> for None.
NoStr == <<>>
Str(v) == <<v>>
OptValues == {NoStr} \cup {Str(v) : v \in Values}

\* "if cycle": neither None nor the empty string
TruthyStr(p) == p # NoStr /\ p[1] # <<>>

\* A value put between apostrophes as it is.
LiteralAsIs(v) == <<"'">> \o v \o <<"'">>

\* f"'{v.replace(chr(39), chr(39)*2)}'": every apostrophe of v doubled,
\* between two apostrophes
Literal(v) ==
    <<"'">>
    \o Flatten([i \in 1..Len(v) |-> IF v[i] = "'" THEN <<"'", "'">> ELSE <<v[i]>>])
    \o <<"'">>

\* " AND ".join(clauses)
JoinAnd(clauses) ==
    Flatten([i \in 1..Len(clauses) |->
                IF i = 1 THEN clauses[i] ELSE <<"AND">> \o clauses[i]])

\* The clauses _where appends, in order
WhereClauses(fy_min, fy_max, cycle, fund_type, dept_group, has) ==
    (IF IsNum(fy_min) THEN <<<<"fiscal_year", ">=", "int">>>> ELSE <<>>)
    \o (IF IsNum(fy_max) THEN <<<<"fiscal_year", "<=", "int">>>> ELSE <<>>)
    \o (IF TruthyStr(cycle) /\ "budget_cycle" \in has
        THEN <<<<"budget_cycle", "=">> \o Literal(cycle[1])>> ELSE <<>>)
    \o (IF TruthyStr(fund_type) /\ "fund_type" \in has
        THEN <<<<"fund_type", "=">> \o Literal(fund_type[1])>> ELSE <<>>)
    \o (IF TruthyStr(dept_group) /\ "dept_group" \in has
        THEN <<<<"dept_group", "=">> \o Literal(dept_group[1])>> ELSE <<>>)

\* ("WHERE " + " AND ".join(clauses)) if clauses else ""
WhereText(clauses) == IF clauses = <<>> THEN <<>> ELSE <<"WHERE">> \o JoinAnd(clauses)

\* _q(where, condition) on the text
QText(where, condition) ==
    IF where = <<>> THEN <<"WHERE">> \o condition ELSE where \o <<"AND">> \o condition

\* "source = 'budget' AND revenue_or_expense = 'Expense'"
BudgetExpenseText ==
    <<"source", "=", "'", "b", "'", "AND", "revenue_or_expense", "=", "'", "e", "'">>

\* How the SQL reader goes through the text from symbol i on: inside a
\* literal two apostrophes are one apostrophe of the value and a single one
\* ends the literal; outside, an apostrophe opens a literal and AND starts
\* another condition. n counts conditions, lits collects the literals read,
\* cur is the literal being read.
RECURSIVE Scan(_, _, _, _, _, _)
Scan(t, i, lit, n, lits, cur) ==
    IF i > Len(t) THEN [count |-> n, open |-> lit, lits |-> lits]
    ELSE IF lit
    THEN IF t[i] = "'"
         THEN IF i < Len(t) /\ t[i + 1] = "'"
              THEN Scan(t, i + 2, TRUE, n, lits, Append(cur, "'"))
              ELSE Scan(t, i + 1, FALSE, n, Append(lits, cur), <<>>)
         ELSE Scan(t, i + 1, TRUE, n, lits, Append(cur, t[i]))
    ELSE IF t[i] = "'" THEN Scan(t, i + 1, TRUE, n, lits, <<>>)
    ELSE IF t[i] \in {"WHERE", "AND"} THEN Scan(t, i + 1, FALSE, n + 1, lits, cur)
    ELSE Scan(t, i + 1, FALSE, n, lits, cur)

\* What the SQL reader makes of a statement's text.
Read(t) == Scan(t, 1, FALSE, 0, <<>>, <<>>)

\* A generated clause: where it was built, the conditions the code has put
\* together, the string values it has put into literals, and the text.
SqlText(site, conditions, values, text) ==
    [kind |-> "text", site |-> site, conditions |-> conditions, values |-> values,
     text |-> text]

\* The values, in order, of the arguments of _where that became a literal
WhereValues(cycle, fund_type, dept_group, has) ==
    (IF TruthyStr(cycle) /\ "budget_cycle" \in has THEN <<cycle[1]>> ELSE <<>>)
    \o (IF TruthyStr(fund_type) /\ "fund_type" \in has THEN <<fund_type[1]>> ELSE <<>>)
    \o (IF TruthyStr(dept_group) /\ "dept_group" \in has THEN <<dept_group[1]>> ELSE <<>>)

\* _where(fy_min, fy_max, cycle, fund_type, dept_group) with every flag True,
\* then _q with the budget-expense condition
BuildWhere ==
    /\ response = NoResponse
    /\ \E cycle \in OptValues, fund_type \in OptValues, dept_group \in OptValues :
          LET has == {"budget_cycle", "fund_type", "dept_group"}
              clauses == WhereClauses(Num(2024), Num(2026), cycle, fund_type, dept_group, has)
          IN  response' = SqlText("_where", Len(clauses) + 2,
                                  WhereValues(cycle, fund_type, dept_group, has)
                                      \o <<<<"b">>, <<"e">>>>,
                                  QText(WhereText(clauses), BudgetExpenseText))
    /\ UNCHANGED <<raw, db, processed, agg, pc, aggIdx, error, written, vproc, partial,
                   log, ing, requests>>

\* get_department_detail(dept_name, fy_min, fy_max): the WHERE clause
BuildDepartmentDetail ==
    /\ response = NoResponse
    /\ \E dept_name \in Values, fy_min \in {NoNum, Num(2024)} :
          LET clauses == WhereClauses(fy_min, Num(2026), NoStr, NoStr, NoStr,
                                      {"budget_cycle", "dept_group"})
              w1 == QText(WhereText(clauses), <<"revenue_or_expense", "=", "'", "e", "'">>)
              w2 == QText(w1, <<"dept_name", "=">> \o Literal(dept_name))
          IN  response' = SqlText("get_department_detail", Len(clauses) + 2,
                                  <<<<"e">>, dept_name>>, w2)
    /\ UNCHANGED <<raw, db, processed, agg, pc, aggIdx, error, written, vproc, partial,
                   log, ing, requests>>

\* get_capital_projects(fy_min, fy_max, dept, limit): the WHERE clause
BuildCapitalProjects ==
    /\ response = NoResponse
    /\ \E dept \in OptValues, fy_min \in {NoNum, Num(2024)} :
          LET clauses == WhereClauses(fy_min, Num(2026), NoStr, NoStr, NoStr, {})
              w1 == QText(WhereText(clauses), <<"source", "=", "'", "b", "'">>)
              w2 == IF TruthyStr(dept)
                    THEN QText(w1, <<"asset_owning_dept", "=">> \o Literal(dept[1]))
                    ELSE w1
          IN  response' = SqlText("get_capital_projects",
                                  Len(clauses) + 1 + (IF TruthyStr(dept) THEN 1 ELSE 0),
                                  <<<<"b">>>> \o (IF TruthyStr(dept) THEN <<dept[1]>> ELSE <<>>),
                                  w2)
    /\ UNCHANGED <<raw, db, processed, agg, pc, aggIdx, error, written, vproc, partial,
                   log, ing, requests>>

\* The selections of a sidebar multiselect: none, one value, or two.
Selections ==
    {<<>>} \cup {<<v>> : v \in Values}
    \cup {<<v, w>> : v \in {<<"'">>, <<"a", "'">>}, w \in {<<"AND">>, <<"'", "'">>}}

\* ", ".join(f"'{t.replace(...)}'" for t in values)
InList(values) ==
    Flatten([i \in 1..Len(values) |->
                IF i = 1 THEN Literal(values[i]) ELSE <<",">> \o Literal(values[i])])

\* _where_clause(yr, cycle, fund_types, dept_groups) of the dashboard, with
\* both flags True. NoStr is the selection "All", the one cycle that adds no
\* clause (an empty string does add one); "and" is the AND inside BETWEEN,
\* which does not start a condition.
BuildWhereClause ==
    /\ response = NoResponse
    /\ \E cycle \in OptValues, fund_types \in Selections,
          dept_groups \in {<<>>, <<<<"a">>>>, <<<<"'">>, <<"AND", "'">>>>} :
          LET clauses ==
                  <<<<"fiscal_year", "BETWEEN", "int", "and", "int">>>>
                  \o (IF cycle # NoStr
                      THEN <<<<"budget_cycle", "=">> \o Literal(cycle[1])>> ELSE <<>>)
                  \o (IF fund_types # <<>>
                      THEN <<<<"fund_type", "IN", "(">> \o InList(fund_types) \o <<")">>>>
                      ELSE <<>>)
                  \o (IF dept_groups # <<>>
                      THEN <<<<"dept_group", "IN", "(">> \o InList(dept_groups) \o <<")">>>>
                      ELSE <<>>)
          IN  response' = SqlText("_where_clause", Len(clauses),
                                  (IF cycle # NoStr THEN <<cycle[1]>> ELSE <<>>)
                                      \o fund_types \o dept_groups,
                                  WhereText(clauses))
    /\ UNCHANGED <<raw, db, processed, agg, pc, aggIdx, error, written, vproc, partial,
                   log, ing, requests>>

TextInit == Init /\ raw = BaseDir /\ db = EmptyDb

TextNext ==
    \/ BuildWhere
    \/ BuildDepartmentDetail
    \/ BuildCapitalProjects
    \/ BuildWhereClause
    \/ ResponseReturned

TextSpec == TextInit /\ [][TextNext]_vars

----------------------------------------------------------------------------
(* pipeline/ingest.py *)

\* SOURCES, in the order of the dict
SOURCES ==
    <<"operating_budget", "operating_actuals", "cip_budget_fy", "cip_actuals_fy",
      "ref_accounts", "ref_departments", "ref_funds">>

\* Number of entries of SOURCES the loop of ingest() goes through.
MaxSources == 2

\* What the server can send for one file: a body is the sequence of chunks
\* r.iter_bytes yields, and a file holds the chunks written to it.
Bodies == {<<"v1-1", "v1-2">>, <<"v2-1", "v2-2">>}

\* Status codes of a response: success, the one ingest() tolerates, another.
Statuses == {200, 403, 500}

\* The entry of SOURCES the loop is at.
Current == SOURCES[ing.idx + 1]

IngestIdle == ing.state \in {"idle", "done", "aborted"}

\* A download that never skips.
SkipsNever(file, force) == FALSE

\* "if dest.exists() and not force"
Skips(file, force) == file.exists /\ ~force

\* python -m pipeline.ingest, or ingest(force=...): mkdir, then the loop
StartIngest ==
    /\ IngestIdle
    /\ \E force \in BOOLEAN :
          ing' = [state |-> "loop", force |-> force, idx |-> 0, body |-> <<>>,
                  \* how the run before this one was called and how it ended
                  prev |-> IF ing.state = "idle" THEN ing.prev
                           ELSE [state |-> ing.state, force |-> ing.force]]
    /\ requests' = 0
    /\ UNCHANGED <<raw, db, processed, agg, pc, aggIdx, error, written, vproc, partial,
                   log, response>>

\* download(): "if dest.exists() and not force": [skip], return dest
DownloadSkip ==
    /\ ing.state = "loop"
    /\ ing.idx < MaxSources
    /\ Skips(raw[Current], ing.force)
    /\ ing' = [ing EXCEPT !.idx = @ + 1]
    /\ UNCHANGED <<raw, db, processed, agg, pc, aggIdx, error, written, vproc, partial,
                   log, requests, response>>

\* download(): httpx.stream("GET", ...), r.raise_for_status(), open(dest, "wb").
\* A 403 is caught by ingest() and the loop goes on; any other error status
\* leaves ingest(); on success the file is created or truncated.
DownloadRequest ==
    /\ ing.state = "loop"
    /\ ing.idx < MaxSources
    /\ ~Skips(raw[Current], ing.force)
    /\ requests' = requests + 1
    /\ \E status \in Statuses, body \in Bodies :
          CASE status = 200 ->
                  /\ raw' = [raw EXCEPT ![Current] = File(<<>>)]
                  /\ ing' = [ing EXCEPT !.state = "streaming", !.body = body]
            [] status = 403 ->
                  /\ raw' = raw
                  /\ ing' = [ing EXCEPT !.idx = @ + 1]
            [] OTHER ->
                  /\ raw' = raw
                  /\ ing' = [ing EXCEPT !.state = "aborted"]
    /\ UNCHANGED <<db, processed, agg, pc, aggIdx, error, written, vproc, partial,
                   log, response>>

\* for chunk in r.iter_bytes(...): f.write(chunk); after the last chunk the
\* file is closed and download() returns
WriteChunk ==
    /\ ing.state = "streaming"
    /\ LET n == Len(raw[Current].rows) + 1
       IN  /\ raw' = [raw EXCEPT ![Current] = File(Append(@.rows, ing.body[n]))]
           /\ ing' = IF n = Len(ing.body)
                     THEN [ing EXCEPT !.state = "loop", !.idx = @ + 1, !.body = <<>>]
                     ELSE ing
    /\ UNCHANGED <<db, processed, agg, pc, aggIdx, error, written, vproc, partial,
                   log, requests, response>>

\* The stream breaks (httpx.ReadError, the 300 s timeout) or the process is
\* ended: the exception is not an HTTPStatusError, ingest() does not catch
\* it, and nothing removes the file
StreamAbort ==
    /\ ing.state = "streaming"
    /\ ing' = [ing EXCEPT !.state = "aborted", !.body = <<>>]
    /\ UNCHANGED <<raw, db, processed, agg, pc, aggIdx, error, written, vproc, partial,
                   log, requests, response>>

\* The loop is through: return paths
IngestReturn ==
    /\ ing.state = "loop"
    /\ ing.idx = MaxSources
    /\ ing' = [ing EXCEPT !.state = "done"]
    /\ UNCHANGED <<raw, db, processed, agg, pc, aggIdx, error, written, vproc, partial,
                   log, requests, response>>

\* data/raw before the first run: empty, or holding complete files.
IngestDirs ==
    {[f \in RawFiles |-> NoFile]}
    \cup {[f \in RawFiles |-> IF f = SOURCES[1] THEN File(b) ELSE NoFile] : b \in Bodies}

IngestInit ==
    /\ raw \in IngestDirs
    /\ db = EmptyDb
    /\ processed = NoFile
    /\ agg = [n \in AggNames |-> NoAgg]
    /\ partial = {}
    /\ log = <<>>
    /\ ing = NoIngest
    /\ requests = 0
    /\ pc = "idle"
    /\ aggIdx = 0
    /\ error = "none"
    /\ written = {}
    /\ vproc = NoProcess
    /\ response = NoResponse

IngestNext ==
    \/ StartIngest
    \/ DownloadSkip
    \/ DownloadRequest
    \/ WriteChunk
    \/ StreamAbort
    \/ IngestReturn

IngestSpec == IngestInit /\ [][IngestNext]_vars

----------------------------------------------------------------------------
(* Properties *)

\* The fact artifact on disk is the one this run exported; db.operating and
\* db.cip are then the tables it was exported from.
FactWritten == "budget" \in written

ProcessedRows == processed.rows
OperatingRows == db.operating.rows

\* Operating rows come first in budget.parquet, capital rows after them.
IsOperatingIndex(i) == i <= Len(OperatingRows)

\* The fiscal-year rule as the specification words it.
NormalizeRule(c) == IF c < 100 THEN c + 2000 ELSE c

\* <<amount, fiscal_year>> of the rows of one source in a table
YearsOfSource(rows, source) ==
    {<<rows[i].amount, rows[i].fiscal_year>> :
        i \in {j \in 1..Len(rows) : rows[j].source = source}}

\* <<amount, expected fiscal_year>> of the raw rows of one extract
ExpectedYears(rawRows) ==
    {<<TryCastNumber(rawRows[i].amount),
       Num(NormalizeRule(Val(TryCastNumber(rawRows[i].report_fy))))>> :
        i \in {j \in 1..Len(rawRows) : IsNum(TryCastNumber(rawRows[j].report_fy))}}

\* C1: every fiscal-year code c of each of the four extracts is written as
\* c + 2000 when c < 100 and as c otherwise, in the operating table, in the
\* cip table and in budget.parquet.
C1_FiscalYearRule ==
    /\ db.operating.kind = "table" =>
        /\ YearsOfSource(db.operating.rows, "budget") = ExpectedYears(db.raw_op_budget.rows)
        /\ YearsOfSource(db.operating.rows, "actual") = ExpectedYears(db.raw_op_actuals.rows)
    /\ db.cip.kind = "table" =>
        /\ YearsOfSource(db.cip.rows, "budget")
             = ExpectedYears(SelectSeq(db.raw_cip_budget.rows, AmountCastable))
        /\ YearsOfSource(db.cip.rows, "actual")
             = ExpectedYears(SelectSeq(db.raw_cip_actuals.rows, AmountCastable))
    /\ FactWritten =>
        /\ YearsOfSource(ProcessedRows, "budget")
             = ExpectedYears(db.raw_op_budget.rows)
               \cup ExpectedYears(SelectSeq(db.raw_cip_budget.rows, AmountCastable))
        /\ YearsOfSource(ProcessedRows, "actual")
             = ExpectedYears(db.raw_op_actuals.rows)
               \cup ExpectedYears(SelectSeq(db.raw_cip_actuals.rows, AmountCastable))

\* C1 witness: a run exported a 2-digit code of the operating budget as
\* 2099 and a 3-digit code of the capital actuals as 100.
C1_Witness ==
    /\ pc = "done"
    /\ raw.operating_budget.rows = <<[BaseBudgetRow EXCEPT !.report_fy = <<"9", "9">>]>>
    /\ raw.cip_actuals_fy.rows = <<[BaseCipActualRow EXCEPT !.report_fy = <<"1", "0", "0">>]>>
    /\ \E i, j \in 1..Len(ProcessedRows) :
          /\ ProcessedRows[i].source = "budget" /\ ProcessedRows[i].fiscal_year = Num(2099)
          /\ ProcessedRows[j].source = "actual" /\ ProcessedRows[j].fiscal_year = Num(100)

\* The three equivalences between revenue_or_expense and account_type
Classified(r) ==
    /\ r.revenue_or_expense = "Expense" <=> r.account_type \in ExpenseTypes
    /\ r.revenue_or_expense = "Revenue"
         <=> (r.account_type # NULL /\ r.account_type \notin ExpenseTypes)
    /\ r.revenue_or_expense = NULL <=> r.account_type = NULL

CycleRule(r) ==
    /\ r.source = "actual" => r.budget_cycle = "actual"
    /\ r.source = "budget" => r.budget_cycle \in {"adopted", "proposed"}

\* C3: in the operating and cip tables, whatever the extracts hold, an
\* actual row has budget_cycle 'actual', a budget row has 'adopted' or
\* 'proposed', and a budget row of an extract that omits the cycle has 'adopted'.
C3_CycleInvariant ==
    /\ db.operating.kind = "table" =>
        /\ \A i \in 1..Len(db.operating.rows) : CycleRule(db.operating.rows[i])
        /\ (\A i \in 1..Len(db.raw_op_budget.rows) :
                db.raw_op_budget.rows[i].budget_cycle = NULL)
             => \A i \in 1..Len(db.operating.rows) :
                    db.operating.rows[i].source = "budget"
                      => db.operating.rows[i].budget_cycle = "adopted"
    /\ db.cip.kind = "table" =>
        \A i \in 1..Len(db.cip.rows) : CycleRule(db.cip.rows[i])

\* C4: no row of budget.parquet has a NULL amount (every amount there is the
\* cast of a raw amount, so a NULL one is a raw amount that did not cast).
C4_NoUnparseableAmount ==
    FactWritten => \A i \in 1..Len(ProcessedRows) : IsNum(ProcessedRows[i].amount)

\* An account number is expense-classified when the accounts table gives it
\* an expense account_type.
ExpenseClassified(account_number) ==
    \E i \in 1..Len(db.ref_accounts.rows) :
        /\ SqlEq(db.ref_accounts.rows[i].account_number, account_number)
        /\ db.ref_accounts.rows[i].account_type \in ExpenseTypes

\* The adopted expense budget of a fiscal year, summed over budget.parquet
FactExpenseSum(fy) ==
    LET sel == SelectSeq(ProcessedRows,
                   LAMBDA r : /\ r.revenue_or_expense = "Expense"
                              /\ r.source = "budget"
                              /\ r.budget_cycle = "adopted"
                              /\ r.fiscal_year = fy)
    IN  SqlSum([i \in 1..Len(sel) |-> sel[i].amount])

\* The same sum taken directly from the raw operating-budget extract
RawExpenseSum(fy) ==
    LET sel == SelectSeq(db.raw_op_budget.rows,
                   LAMBDA r : /\ ExpenseClassified(r.account_number)
                              /\ Coalesce(r.budget_cycle, "adopted") = "adopted"
                              /\ IsNum(TryCastNumber(r.report_fy))
                              /\ Num(NormalizeRule(Val(TryCastNumber(r.report_fy)))) = fy)
    IN  SqlSum([i \in 1..Len(sel) |-> TryCastNumber(sel[i].amount)])

FiscalYears ==
    {ProcessedRows[i].fiscal_year : i \in 1..Len(ProcessedRows)} \ {NoNum}

\* C5: for every fiscal year the adopted expense budget summed over
\* budget.parquet equals the sum over the raw operating-budget rows of that
\* year with an expense-classified account number.
C5_ExpenseRoundTrip ==
    FactWritten => \A fy \in FiscalYears : FactExpenseSum(fy) = RawExpenseSum(fy)

FactFileMissing == \E f \in FactFiles : ~raw[f].exists
RefFileMissing == \E f \in RefFiles : ~raw[f].exists

\* C8: with a fact extract missing, the run never reaches the export: it
\* writes neither budget.parquet nor an aggregate, and when it has ended it
\* has ended with an error.
C8_MissingFactAborts ==
    FactFileMissing =>
        /\ written = {}
        /\ pc \in {"idle", "ref", "op", "cip", "aborted"}
        /\ pc = "aborted" => error # "none"

\* C8 witness: only a capital extract is missing and the run has aborted.
C8_Witness ==
    /\ raw.operating_budget.exists /\ raw.operating_actuals.exists
    /\ raw.cip_budget_fy.exists /\ ~raw.cip_actuals_fy.exists
    /\ pc = "aborted"
    /\ error = "BinderException"

\* C9: with a dimension extract missing (and every fact extract there) the
\* run does not abort, and once budget.parquet is written the attributes of
\* the missing dimension are NULL in every operating row.
C9_MissingDimensionDegrades ==
    (RefFileMissing /\ ~FactFileMissing) =>
        /\ pc # "aborted"
        /\ FactWritten =>
            \A i \in 1..Len(ProcessedRows) :
                /\ ~raw.ref_accounts.exists => ProcessedRows[i].account_type = NULL
                /\ ~raw.ref_departments.exists => ProcessedRows[i].dept_group = NULL
                /\ ~raw.ref_funds.exists => ProcessedRows[i].fund_name = NULL

\* The operating rows behind a cell of a flow aggregate: same key columns
SankeyRevenueCellRows(c) ==
    SelectSeq(db.operating.rows,
        LAMBDA r : /\ r.account_type = c.revenue_source /\ r.fund_type = c.fund_type
                   /\ r.fiscal_year = c.fiscal_year /\ r.budget_cycle = c.budget_cycle)

SankeyExpenseCellRows(c) ==
    SelectSeq(db.operating.rows,
        LAMBDA r : /\ r.fund_type = c.fund_type /\ r.dept_group = c.dept_group
                   /\ r.fiscal_year = c.fiscal_year /\ r.budget_cycle = c.budget_cycle)

AmountsOf(rows) == SqlSum([i \in 1..Len(rows) |-> rows[i].amount])

BudgetRevenueRow(r) == r.source = "budget" /\ r.revenue_or_expense = "Revenue"
BudgetExpenseRow(r) == r.source = "budget" /\ r.revenue_or_expense = "Expense"

\* C6: every cell of sankey_revenue is the sum of the source = 'budget',
\* revenue-classified operating rows of its key and of no other row, and
\* every cell of sankey_expense is the sum of the source = 'budget',
\* expense-classified operating rows of its key and of no other row; a cell
\* exists only where there is such a row.
C6_SankeyBudgetOnly ==
    /\ "sankey_revenue" \in written =>
          \A c \in agg.sankey_revenue.rows :
              /\ SelectSeq(SankeyRevenueCellRows(c), BudgetRevenueRow) # <<>>
              /\ c.amount = AmountsOf(SelectSeq(SankeyRevenueCellRows(c), BudgetRevenueRow))
    /\ "sankey_expense" \in written =>
          \A c \in agg.sankey_expense.rows :
              /\ SelectSeq(SankeyExpenseCellRows(c), BudgetExpenseRow) # <<>>
              /\ c.amount = AmountsOf(SelectSeq(SankeyExpenseCellRows(c), BudgetExpenseRow))

\* C6 witness: both flow aggregates are written with a summed cell each,
\* while the operating table holds actual rows that pass every other
\* condition of the two WHERE clauses: revenue-classified with a fund type,
\* expense-classified with a fund type and a department group.
C6_Witness ==
    /\ pc = "done"
    /\ \E c \in agg.sankey_revenue.rows : IsNum(c.amount)
    /\ \E c \in agg.sankey_expense.rows : IsNum(c.amount)
    /\ \E i \in 1..Len(db.operating.rows) :
          /\ db.operating.rows[i].source = "actual"
          /\ db.operating.rows[i].revenue_or_expense = "Revenue"
          /\ db.operating.rows[i].fund_type # NULL
          /\ IsNum(db.operating.rows[i].amount)
    /\ \E i \in 1..Len(db.operating.rows) :
          /\ db.operating.rows[i].source = "actual"
          /\ db.operating.rows[i].revenue_or_expense = "Expense"
          /\ db.operating.rows[i].fund_type # NULL
          /\ db.operating.rows[i].dept_group # NULL
          /\ IsNum(db.operating.rows[i].amount)

C10_ExitStatus ==
    vproc # NoProcess =>
        (vproc.exit # 0 <=> \E i \in 1..Len(vproc.report) : vproc.report[i] = "FAIL")

\* C10 witness: a run that reported WARN and no FAIL has exited with 0.
C10_Witness ==
    /\ vproc # NoProcess
    /\ vproc.exit = 0
    /\ vproc.warnings > 0
    /\ \E i \in 1..Len(vproc.report) : vproc.report[i] = "WARN"

\* A run ended by an exception after its checks reported FAIL.
C10_RaisedWitness ==
    /\ vproc # NoProcess
    /\ vproc.raised
    /\ vproc.exit = 1

\* C11: validate() never ends with an exception: whatever the artifacts are,
\* it reaches its summary and returns the failure count.
C11_ValidatorNeverRaises ==
    vproc # NoProcess => ~vproc.raised

\* The number of lines of a kind in the report of the validator process
Lines(kind) == Cardinality({i \in 1..Len(vproc.report) : vproc.report[i] = kind})

\* dept_budget_trends holds FY2025 budget rows of both cycles
BothCycles2025 ==
    /\ agg.dept_budget_trends.exists
    /\ \E r \in agg.dept_budget_trends.rows :
          r.fiscal_year = Num(2025) /\ r.source = "budget" /\ r.budget_cycle = "adopted"
    /\ \E r \in agg.dept_budget_trends.rows :
          r.fiscal_year = Num(2025) /\ r.source = "budget" /\ r.budget_cycle = "proposed"

\* C12: when dept_budget_trends holds both an adopted and a proposed budget
\* cycle for FY2025, the run reports a WARN; every WARN line counts in the
\* warning tally and none in the failure tally, which counts the FAIL lines.
C12_BothCyclesWarn ==
    (vproc # NoProcess /\ BothCycles2025) =>
        /\ Lines("WARN") >= 1
        /\ vproc.warnings = Lines("WARN")
        /\ vproc.failed = Lines("FAIL")

\* C12 witness: such a run whose only WARN is the one for FY2025, with no
\* failure counted.
C12_Witness ==
    /\ vproc # NoProcess
    /\ BothCycles2025
    /\ vproc.warnings = 1
    /\ vproc.failed = 0
    /\ ~vproc.raised

\* The columns of the rows a written aggregate file holds
FileColumns(n) == UNION {DOMAIN r : r \in agg[n].rows}

\* C13: every statement a query function or the dashboard issues names in
\* its WHERE clause only columns of the SELECT list that wrote its target
\* aggregate, whatever filters were given; no call ends in a binder error,
\* and the rows of a written aggregate carry exactly those columns.
C13_WhereColumnsDeclared ==
    /\ response # NoResponse =>
          /\ \A i \in DOMAIN response.sql :
                WhereColumns(response.sql[i].where) \subseteq AggColumns(response.sql[i].target)
          /\ response.kind = "error" => response.error = "IOException"
    /\ \A n \in AggNames :
          (agg[n].exists /\ agg[n].rows # {}) => FileColumns(n) = AggColumns(n)

\* C13 witness: get_overview has answered a call that gave a cycle and a
\* department group: the statement on dept_budget_trends filters on both,
\* the one on revenue_breakdown on the cycle only, and the one on
\* fund_allocation on the fund type and not on the department group.
C13_Witness ==
    /\ response # NoResponse
    /\ response.kind = "overview"
    /\ {"budget_cycle", "dept_group"} \subseteq WhereColumns(response.sql[1].where)
    /\ "budget_cycle" \in WhereColumns(response.sql[2].where)
    /\ "dept_group" \notin WhereColumns(response.sql[2].where)
    /\ "fund_type" \in WhereColumns(response.sql[3].where)
    /\ "dept_group" \notin WhereColumns(response.sql[3].where)
    /\ \A n \in AggNames : agg[n].exists

\* The aggregates the COPY statements read from the operating table
OperatingAggNames == AggNames \ {"cip_by_dept"}

\* The columns of budget.parquet
FactColumns == UNION {DOMAIN ProcessedRows[i] : i \in 1..Len(ProcessedRows)}

\* C14: after a complete run every aggregate is a projection of
\* budget.parquet alone: each aggregate read from the operating table equals
\* the same GROUP BY taken over the rows of budget.parquet, and every column
\* of cip_by_dept other than the summed amount is a column of budget.parquet
\* (asset_owning_dept being exported as dept_name).
C14_AggregatesFromFact ==
    pc = "done" =>
        /\ \A n \in OperatingAggNames : agg[n].rows = AggQuery(n, ProcessedRows, <<>>)
        /\ (AggColumns("cip_by_dept") \ {"asset_owning_dept"}) \subseteq FactColumns

\* C15: no artifact is ever open for writing at its published path: a file
\* that exists at data/processed or data/aggregated is a complete one.
C15_NoPartialArtifact ==
    partial = {}

\* The fact rows a run computes from the raw directory alone.
FactOf(d) ==
    UnifiedFact(OperatingQuery(d.operating_budget.rows, d.operating_actuals.rows,
                               d.ref_accounts.rows, d.ref_departments.rows,
                               d.ref_funds.rows),
                CipQuery(d.cip_budget_fy.rows, d.cip_actuals_fy.rows))

\* C16: the fact table a run exports is a function of the raw files of that
\* run only: every table it reads was recreated from a raw file, and the
\* exported rows are those computed from the raw directory, whatever the
\* database file held before.
C16_FactFromRawOnly ==
    ("budget" \in written /\ "budget" \notin partial) =>
        /\ \A t \in RefFiles : raw[t].exists /\ db[t] = ReadCsv(raw[t])
        /\ processed.rows = FactOf(raw)

\* C17: whatever the filters, the general_fund_pct of an overview response is
\* a percentage between 0 and 100 (0..1000 tenths), and it is 0 when the
\* filtered expense total is 0.
C17_GeneralFundPctRange ==
    response.kind = "overview" =>
        /\ response.general_fund_pct >= 0
        /\ response.general_fund_pct <= 1000
        /\ response.total_expense = 0 => response.general_fund_pct = 0

\* The aggregate files of the run: everything written but the fact file.
AggregatesWritten == written \ {"budget"}

\* C18: a transform that ran to its end has written ten aggregate files, and
\* they are exactly the files the existence checks of the validator look for.
C18_TenAggregatesAsExpected ==
    pc = "done" =>
        /\ Cardinality(AggregatesWritten) = 10
        /\ AggregatesWritten = Range(expected_aggs)
        /\ \A n \in Range(expected_aggs) : agg[n].exists

\* C18 as stated: the aggregate files of a complete run are nine, and they
\* are the files the validator looks for.
C18_NineAggregatesAsExpected ==
    pc = "done" =>
        /\ Cardinality(AggregatesWritten) = 9
        /\ AggregatesWritten = Range(expected_aggs)

\* C18 witness: a complete run has been validated, and the eleven existence
\* checks (the fact file and the expected aggregates) are the first eleven
\* lines of the report, all passed.
C18_Witness ==
    /\ pc = "done"
    /\ vproc.state = "exited"
    /\ Len(vproc.report) >= 11
    /\ \A i \in 1..11 : vproc.report[i] = "PASS"

\* The rows of the two capital extracts that WHERE TRY_CAST(amount AS DOUBLE)
\* IS NOT NULL has kept out of the cip table in this run.
DroppedRows ==
    Len(SelectSeq(db.raw_cip_budget.rows, LAMBDA r : ~AmountCastable(r)))
    + Len(SelectSeq(db.raw_cip_actuals.rows, LAMBDA r : ~AmountCastable(r)))

\* C19: once the fact tables of a run are built, its log holds a row-drop
\* line whose count is the number of rows dropped for an unparseable amount,
\* one per dropped row.
C19_RowDropCountLogged ==
    pc \in {"export", "agg", "done"} =>
        \E i \in 1..Len(log) :
            /\ log[i].line = "Rows dropped"
            /\ log[i].rows = Num(DroppedRows)

\* C20, revenue side: no row of sankey_revenue has the revenue_source
\* 'Personnel' or 'Non-Personnel'.
C20_RevenueSideClean ==
    \A c \in agg.sankey_revenue.rows : c.revenue_source \notin ExpenseTypes

\* C20, expense side: no row of sankey_expense has the dept_group
\* 'Major Revenues'.
C20_ExpenseSideClean ==
    \A c \in agg.sankey_expense.rows : c.dept_group # "Major Revenues"

\* C20: for any raw inputs, sankey_revenue holds no expense category as a
\* revenue source and sankey_expense holds no revenue-only department group.
C20_SankeySidesClean ==
    C20_RevenueSideClean /\ C20_ExpenseSideClean

\* budget.parquet of the current run is complete at its published path.
FactExported == "budget" \in written /\ "budget" \notin partial

\* The columns of budget.parquet that a capital row has no value for.
PaddedColumns ==
    {"account_type", "account_class", "account_group", "account", "account_number",
     "dept_group", "dept_division", "fund_type", "fund_name", "fund_number"}

\* The i-th capital row of budget.parquet: capital rows follow the operating rows.
CapitalFactRow(i) == processed.rows[Len(db.operating.rows) + i]

OperatingBuilt == pc \in {"cip", "export", "agg", "done"}

\* Some row of the dimension table has the key, compared as text.
HasMatch(rows, col, key) ==
    \E i \in 1..Len(rows) : SqlEq(TryCastVarchar(key), TryCastVarchar(rows[i][col]))

\* The operating row o carries the raw row r of the given source, with NULL
\* attributes for every dimension in which the key of r has no match.
CarriesRaw(o, r, source) ==
    /\ o.source = source
    /\ o.amount = TryCastNumber(r.amount)
    /\ o.account = r.account
    /\ o.account_number = TryCastVarchar(r.account_number)
    /\ o.dept_name = r.dept_name
    /\ o.fund_type = r.fund_type
    /\ o.fund_number = TryCastVarchar(r.fund_number)
    /\ ~HasMatch(db.ref_accounts.rows, "account_number", r.account_number) =>
          /\ o.account_type = NULL /\ o.account_class = NULL
          /\ o.account_group = NULL /\ o.revenue_or_expense = NULL
    /\ ~HasMatch(db.ref_departments.rows, "funds_center_number", r.funds_center_number) =>
          o.dept_group = NULL /\ o.dept_division = NULL
    /\ ~HasMatch(db.ref_funds.rows, "fund_number", r.fund_number) =>
          o.fund_name = NULL

\* The raw row appears in the operating table.
Appears(r, source) ==
    \E i \in 1..Len(db.operating.rows) : CarriesRaw(db.operating.rows[i], r, source)

\* C22: every row of raw_op_budget and of raw_op_actuals appears in the
\* operating table, matched or not; where a key has no match the attributes
\* of that dimension are NULL; the table has at least as many rows as the
\* two extracts together.
C22_NoOperatingRowDropped ==
    OperatingBuilt =>
        /\ \A i \in 1..Len(db.raw_op_budget.rows) : Appears(db.raw_op_budget.rows[i], "budget")
        /\ \A i \in 1..Len(db.raw_op_actuals.rows) : Appears(db.raw_op_actuals.rows[i], "actual")
        /\ Len(db.operating.rows) >= Len(db.raw_op_budget.rows) + Len(db.raw_op_actuals.rows)

\* C22 witness: the operating table is built from a budget row whose account
\* key matches no account row and an actual row whose key does.
C22_Witness ==
    /\ OperatingBuilt
    /\ \E i \in 1..Len(db.raw_op_budget.rows) :
          /\ ~HasMatch(db.ref_accounts.rows, "account_number",
                       db.raw_op_budget.rows[i].account_number)
          /\ db.raw_op_budget.rows[i].account_number # NULL
    /\ \E i \in 1..Len(db.raw_op_actuals.rows) :
          HasMatch(db.ref_accounts.rows, "account_number",
                   db.raw_op_actuals.rows[i].account_number)

\* A step in which a validator process runs from start to exit.
ValidatorRuns == vproc.state = "none" /\ vproc'.state = "exited"

\* C23: a validator run leaves budget.parquet and every aggregate file as
\* they were, whatever it reports.
C23_ValidatorLeavesArtifacts ==
    [][ValidatorRuns => (processed' = processed /\ agg' = agg /\ partial' = partial)]_vars

\* C23 witness: a validator has run over existing artifacts and exited with
\* failures counted; another has ended in an exception.
C23_Witness ==
    /\ vproc.state = "exited"
    /\ processed.exists
    /\ \E n \in AggNames : agg[n].exists
    /\ vproc.failed > 0
    /\ vproc.exit = 1

C23_RaisedWitness ==
    /\ vproc.state = "exited"
    /\ processed.exists
    /\ vproc.raised

\* The moves of transform() from one stage to the next; an exception ends
\* the operating or the capital build.
StageSteps ==
    {<<"idle", "ref">>, <<"done", "ref">>, <<"aborted", "ref">>,
     <<"ref", "op">>, <<"op", "cip">>, <<"op", "aborted">>,
     <<"cip", "export">>, <<"cip", "aborted">>,
     <<"export", "agg">>, <<"agg", "done">>}

\* C24: the stages of a run follow one another in the order reference load,
\* operating build, capital build, fact export, aggregation build; the
\* database changes only in the three loading stages, budget.parquet only in
\* the export stage, and an aggregate file only in the aggregation stage,
\* when budget.parquet of the run is complete.
C24_StageOrder ==
    [][/\ pc' # pc => <<pc, pc'>> \in StageSteps
       /\ db' # db => pc \in {"ref", "op", "cip"}
       /\ processed' # processed => pc = "export"
       /\ agg' # agg => (pc = "agg" /\ FactExported)
       /\ (written' # written /\ pc # "export") => (pc \in {"agg"} \/ written' = {})]_vars

\* C24 witness: a run has gone through every stage and printed its last line.
C24_Witness ==
    /\ pc = "done"
    /\ Len(log) > 0
    /\ log[Len(log)].line = "Transform complete."
    /\ \E i, j \in 1..Len(log) :
          /\ i < j
          /\ log[i].line = "Exported processed data"
          /\ log[j].line = "[agg]"

\* The two filter columns the column check looks at.
FilterColumns == {"dept_group", "fund_type"}

\* A column check has run on a file of a given schema.
ColumnsChecked == vproc.state = "exited" /\ "cols" \in DOMAIN vproc

\* C25: the column check fails exactly when the aggregate lacks a filter
\* column its consumers expect; a column the consumers treat as absent passes
\* whether it is present or not.
C25_MissingExpectedColumnFails ==
    ColumnsChecked =>
        (vproc.failed > 0 <=>
            \E col \in FilterColumns : vproc.expected[col] /\ col \notin vproc.cols)

\* C25 as stated: the column check fails exactly when the aggregate does not
\* have exactly the filter columns its consumers expect.
C25_ExactColumnsOrFail ==
    ColumnsChecked =>
        (vproc.failed > 0 <=>
            \E col \in FilterColumns : vproc.expected[col] # (col \in vproc.cols))

\* C25 witness: fund_allocation, whose consumers treat dept_group as absent,
\* has it together with the expected fund_type, and the check has passed.
C25_Witness ==
    /\ ColumnsChecked
    /\ vproc.expected.name = "fund_allocation"
    /\ vproc.cols = {"dept_group", "fund_type"}
    /\ vproc.failed = 0
    /\ vproc.passed = 2

\* download() is at a file that exists, without force.
AtExistingUnforced ==
    /\ ing.state = "loop"
    /\ ing.idx < MaxSources
    /\ raw[Current].exists
    /\ ~ing.force

\* A run without force that follows a run without force.
SecondUnforcedRun ==
    /\ ing.state \in {"loop", "streaming"}
    /\ ~ing.force
    /\ ing.prev.state \in {"done", "aborted"}
    /\ ~ing.prev.force

\* C26, skip: at an existing file without force no request is sent and the
\* raw directory stays as it is.
C26_SkipLeavesFile ==
    [][AtExistingUnforced => (requests' = requests /\ raw' = raw)]_vars

\* C26, force: with force a request is sent for every entry gone through,
\* and the file of every entry gone through holds a complete body.
C26_ForceReplaces ==
    (ing.force /\ ing.state \in {"loop", "done"}) =>
        /\ requests = ing.idx
        /\ \A i \in 1..ing.idx :
              raw[SOURCES[i]].exists /\ raw[SOURCES[i]].rows \in Bodies

\* C26, twice: a run without force after a run without force leaves the raw
\* directory as the first run left it.
C26_SecondRunChangesNothing ==
    [][SecondUnforcedRun => raw' = raw]_vars

AllPresent == \A i \in 1..MaxSources : raw[SOURCES[i]].exists

\* With force a request is sent for every entry gone through.
ForceRequestsEach ==
    (ing.force /\ ing.state \in {"loop", "done"}) => requests = ing.idx

\* A download whose stream ends leaves the body the server sent in the file.
StreamEndReplaces ==
    (ing.state = "streaming" /\ ing'.state = "loop") => raw'[Current] = File(ing.body)

FailLines(report) == Cardinality({i \in 1..Len(report) : report[i] = "FAIL"})

\* C27: a call of validate() that returns, returns the number of checks that
\* failed during that call.
C27_ReturnsOwnFailures ==
    (vproc.state = "session" /\ IsNum(vproc.returned)) =>
        Val(vproc.returned) = FailLines(vproc.report)

\* Every complete artifact at a published path is the one a complete run
\* over the directory d publishes.
PublishedFrom(d) ==
    /\ (processed.exists /\ "budget" \notin partial) =>
          processed = RunOutputs(d).processed
    /\ \A n \in AggNames :
          (agg[n].exists /\ n \notin partial) => agg[n] = RunOutputs(d).agg[n]

\* C28: once a run has ended, complete or aborted, the complete artifacts at
\* the published paths all come from one run: from the inputs of this run or,
\* all of them, from the inputs of the run before.
C28_NoMixedArtifacts ==
    pc \in {"done", "aborted"} => (PublishedFrom(raw) \/ PublishedFrom(EarlierDir))

\* C29: a file that download() is about to skip as 'already exists' holds a
\* complete body.
C29_SkippedFilesComplete ==
    AtExistingUnforced => raw[Current].rows \in Bodies

\* The apostrophes of a text.
Apostrophes(t) == Cardinality({i \in 1..Len(t) : t[i] = "'"})

\* C30: in every generated WHERE clause the SQL reader finds the conditions
\* the code has put together, whatever the filter values contain: no literal
\* is left open, the literals read are the values passed, and the text holds
\* two apostrophes for each apostrophe of a value besides the two around
\* each literal.
C30_ValuesStayInLiterals ==
    response.kind = "text" =>
        /\ Read(response.text).count = response.conditions
        /\ ~Read(response.text).open
        /\ Read(response.text).lits = response.values
        /\ Apostrophes(response.text) =
              2 * Len(response.values)
              + 2 * Apostrophes(Flatten(response.values))

\* C30 witness: a value made of an apostrophe and ' AND ' has gone into a
\* literal of a clause of the query layer, and one into a clause of the
\* dashboard.
C30_Witness ==
    /\ response.kind = "text"
    /\ response.site = "get_department_detail"
    /\ <<"'", "AND">> \in Range(response.values)

C30_DashboardWitness ==
    /\ response.kind = "text"
    /\ response.site = "_where_clause"
    /\ <<"AND", "'">> \in Range(response.values)

====
